---- MODULE Spec2Model ----
(***************************************************************************)
(* Model of the irongraph agent execution core:                            *)
(*   - the streaming tool-call parser  (crates/llm_gateway/src/lib.rs)     *)
(*   - the persistent-PTY command executor and the PTY fan-out task        *)
(*     (crates/agent_core/src/lib.rs, crates/terminal_manager/src/lib.rs)  *)
(*   - the agent loop                  (crates/agent_core/src/lib.rs)      *)
(* Strings are sequences of one-character strings, indexes are 0-based as  *)
(* in the Rust source (find / rfind return byte offsets, -1 models None).  *)
(***************************************************************************)
EXTENDS Integers, Sequences, FiniteSets, TLC

\* ------------------------------------------------------------------------
\* Bounds of the model
\* ------------------------------------------------------------------------
\* Number of vocabulary pieces an input text of the parser is built from.
MaxPieces == 2

\* ------------------------------------------------------------------------
\* String helpers (Rust str methods)
\* ------------------------------------------------------------------------
MinOf(S) == CHOOSE x \in S : \A y \in S : x <= y

MaxOf(S) == CHOOSE x \in S : \A y \in S : y <= x

\* s[i..]
From(s, i) == SubSeq(s, i + 1, Len(s))

\* s[..i]
Upto(s, i) == SubSeq(s, 1, i)

\* s[i..j]
Slice(s, i, j) == SubSeq(s, i + 1, j)

\* str::find(&str): offset of the first occurrence of pat, -1 for None
Find(s, pat) ==
    LET hits == {i \in 0..(Len(s) - Len(pat)) : SubSeq(s, i + 1, i + Len(pat)) = pat}
    IN  IF hits = {} THEN -1 ELSE MinOf(hits)

\* str::rfind(char): offset of the last occurrence of c, -1 for None
RFindChar(s, c) ==
    LET hits == {i \in 0..(Len(s) - 1) : s[i + 1] = c}
    IN  IF hits = {} THEN -1 ELSE MaxOf(hits)

\* str::starts_with
StartsWith(s, pat) == Len(pat) <= Len(s) /\ SubSeq(s, 1, Len(pat)) = pat

\* str::trim_matches(|c| c == '<' || c == '>')
RECURSIVE TrimAngleStart(_)
TrimAngleStart(s) ==
    IF s # <<>> /\ s[1] \in {"<", ">"} THEN TrimAngleStart(Tail(s)) ELSE s

RECURSIVE TrimAngleEnd(_)
TrimAngleEnd(s) ==
    IF s # <<>> /\ s[Len(s)] \in {"<", ">"} THEN TrimAngleEnd(Upto(s, Len(s) - 1)) ELSE s

TrimAngle(s) == TrimAngleEnd(TrimAngleStart(s))

\* ------------------------------------------------------------------------
\* Literals of the parser
\* ------------------------------------------------------------------------
TOOL_CODE_OPEN == <<"<", "t", "o", "o", "l", "_", "c", "o", "d", "e", ">">>

TOOL_CODE_CLOSE == <<"<", "/", "t", "o", "o", "l", "_", "c", "o", "d", "e", ">">>

TOOL_OPEN == <<"<", "t", "o", "o", "l">>

TOOL_CLOSE == <<"<", "/", "t", "o", "o", "l", ">">>

NAME_ATTR == <<"n", "a", "m", "e", "=", "\"">>

\* ------------------------------------------------------------------------
\* StreamEvent
\* ------------------------------------------------------------------------
Token(t) == [type |-> "Token", a |-> t, b |-> <<>>]

ToolStart(name) == [type |-> "ToolStart", a |-> name, b |-> <<>>]

ToolArg(k, v) == [type |-> "ToolArg", a |-> k, b |-> v]

ToolEnd == [type |-> "ToolEnd", a |-> <<>>, b |-> <<>>]

ErrorEv(msg) == [type |-> "Error", a |-> msg, b |-> <<>>]

Done == [type |-> "Done", a |-> <<>>, b |-> <<>>]

\* ------------------------------------------------------------------------
\* Parser
\* ------------------------------------------------------------------------
\* Parser::new
NewParser == [buffer |-> <<>>, state |-> "Text", current_tool |-> <<>>]

\* The run of one process_chunk call: the parser, the events pushed so far,
\* for each event the character that followed the emitted text in the buffer
\* ("" when nothing followed), and whether the loop goes on.
Emit(r, ev, nxt) == [r EXCEPT !.events = Append(@, ev), !.follow = Append(@, nxt)]

CharAt(s, i) == IF i < Len(s) THEN s[i + 1] ELSE ""

\* A parser that holds nothing back: no partial tag is looked for.
PartialTagNone(buffer) == -1

\* let partial_tag = self.buffer.rfind('<')
PartialTag(buffer) == RFindChar(buffer, "<")

\* ParserState::Text arm
TextArm(r) ==
    LET buf == r.p.buffer
        idx == Find(buf, TOOL_CODE_OPEN)
    IN  IF idx >= 0
        THEN LET r1 == IF idx > 0 THEN Emit(r, Token(Upto(buf, idx)), CharAt(buf, idx)) ELSE r
             IN  [r1 EXCEPT !.p.buffer = From(buf, idx + 11), !.p.state = "InTag"]
        ELSE LET p == PartialTag(buf)
             IN  IF p >= 0 /\ p < Len(buf)
                 THEN IF p > 0
                      THEN [Emit(r, Token(Upto(buf, p)), CharAt(buf, p))
                               EXCEPT !.p.buffer = From(buf, p), !.go = FALSE]
                      ELSE [r EXCEPT !.go = FALSE]
                 ELSE IF buf # <<>>
                      THEN [Emit(r, Token(buf), "") EXCEPT !.p.buffer = <<>>, !.go = FALSE]
                      ELSE [r EXCEPT !.go = FALSE]

\* An InTag arm that emits ToolStart and stays in InTag.
InTagArmStays(r) ==
    LET buf == r.p.buffer
        end_idx == Find(buf, TOOL_CODE_CLOSE)
        tool_start == Find(buf, TOOL_OPEN)
        tag_close == IF tool_start >= 0 THEN Find(From(buf, tool_start), <<">">>) ELSE -1
        tag_content == IF tag_close >= 0
                       THEN Slice(buf, tool_start, tool_start + tag_close + 1) ELSE <<>>
        n_idx == Find(tag_content, NAME_ATTR)
        q_idx == IF n_idx >= 0
                 THEN Find(From(tag_content, n_idx + Len(NAME_ATTR)), <<"\"">>) ELSE -1
        name == Slice(tag_content, n_idx + Len(NAME_ATTR), n_idx + Len(NAME_ATTR) + q_idx)
    IN  IF end_idx >= 0
        THEN [r EXCEPT !.p.buffer = From(buf, end_idx + 12), !.p.state = "Text"]
        ELSE IF tool_start >= 0 /\ tag_close >= 0 /\ n_idx >= 0 /\ q_idx >= 0
             THEN [Emit(r, ToolStart(name), "")
                      EXCEPT !.p.current_tool = name,
                             !.p.buffer = From(buf, tool_start + tag_close + 1)]
             ELSE [r EXCEPT !.go = FALSE]

\* ParserState::InTag arm
InTagArm(r) ==
    LET buf == r.p.buffer
        end_idx == Find(buf, TOOL_CODE_CLOSE)
        tool_start == Find(buf, TOOL_OPEN)
        tag_close == IF tool_start >= 0 THEN Find(From(buf, tool_start), <<">">>) ELSE -1
        tag_content == IF tag_close >= 0
                       THEN Slice(buf, tool_start, tool_start + tag_close + 1) ELSE <<>>
        n_idx == Find(tag_content, NAME_ATTR)
        q_idx == IF n_idx >= 0
                 THEN Find(From(tag_content, n_idx + Len(NAME_ATTR)), <<"\"">>) ELSE -1
        name == Slice(tag_content, n_idx + Len(NAME_ATTR), n_idx + Len(NAME_ATTR) + q_idx)
    IN  IF end_idx >= 0
        THEN [r EXCEPT !.p.buffer = From(buf, end_idx + 12), !.p.state = "Text"]
        ELSE IF tool_start >= 0 /\ tag_close >= 0 /\ n_idx >= 0 /\ q_idx >= 0
             THEN [Emit(r, ToolStart(name), "")
                      EXCEPT !.p.current_tool = name,
                             !.p.buffer = From(buf, tool_start + tag_close + 1),
                             !.p.state = "InToolArg"]
             ELSE [r EXCEPT !.go = FALSE]

\* ParserState::InToolArg arm
InToolArgArm(r) ==
    LET buf == r.p.buffer
        tool_end == Find(buf, TOOL_CLOSE)
        start_tag_idx == Find(buf, <<"<">>)
        end_tag_idx == IF start_tag_idx >= 0
                       THEN Find(From(buf, start_tag_idx), <<">">>) ELSE -1
        tag_full == IF end_tag_idx >= 0
                    THEN Slice(buf, start_tag_idx, start_tag_idx + end_tag_idx + 1) ELSE <<>>
        arg_name == TrimAngle(tag_full)
        closing_tag == <<"<", "/">> \o arg_name \o <<">">>
        closing_idx == Find(buf, closing_tag)
    IN  IF tool_end >= 0
        THEN [Emit(r, ToolEnd, "")
                 EXCEPT !.p.current_tool = <<>>,
                        !.p.buffer = From(buf, tool_end + 7),
                        !.p.state = "InTag"]
        ELSE IF /\ start_tag_idx >= 0
                /\ end_tag_idx >= 0
                /\ ~StartsWith(tag_full, <<"<", "/">>)
                /\ closing_idx >= 0
             THEN [Emit(r, ToolArg(arg_name,
                                   Slice(buf, start_tag_idx + end_tag_idx + 1, closing_idx)), "")
                      EXCEPT !.p.buffer = From(buf, closing_idx + Len(closing_tag))]
             ELSE [r EXCEPT !.go = FALSE]

\* The loop of process_chunk
RECURSIVE ParserLoop(_)
ParserLoop(r) ==
    IF ~r.go THEN r
    ELSE ParserLoop(CASE r.p.state = "Text" -> TextArm(r)
                      [] r.p.state = "InTag" -> InTagArm(r)
                      [] OTHER -> InToolArgArm(r))

\* Parser::process_chunk
ProcessChunk(p, chunk) ==
    ParserLoop([p |-> [p EXCEPT !.buffer = @ \o chunk],
                events |-> <<>>, follow |-> <<>>, go |-> TRUE])

\* ------------------------------------------------------------------------
\* State
\* ------------------------------------------------------------------------
VARIABLES
    \* streaming parser fed fragment by fragment
    p_input,      \* the text S the upstream delivers
    p_pos,        \* how much of S has been fed
    parser,       \* Parser { buffer, state, current_tool }
    p_log,        \* all events emitted so far, adjacent Tokens coalesced
    p_last,       \* the events returned by the last process_chunk call
    p_follow,     \* per event of p_last: the character that followed it in the buffer
    \* PTY session, fan-out task and command executor
    terminal_session_id,  \* AgentSession.terminal_session_id: "none" or the PTY session id
    sessions,             \* TerminalState.sessions: the registered PTY session ids
    command_buffer,       \* AgentSession.command_buffer: 0 for None, k for Some(sender of channel k)
    sh,                   \* the shell behind the PTY
    pty_in,               \* lines written to the PTY and not yet read by the shell
    pty_chan,             \* the channel from the reader thread to the fan-out task
    fo,                   \* the fan-out task
    rx,                   \* the receiver execute_tool holds: channel id and queued chunks
    ex,                   \* execute_tool: position and locals
    calls,                \* number of execute_tool invocations so far
    \* agent loop
    gw,                   \* the gateway the config selects: "mock" or "live"
    status,               \* AgentSession.status, the running flag
    history,              \* AgentSession.history, the in-memory messages
    repo,                 \* the rows the HistoryRepository holds for the session
    faults,               \* failures the repository will still answer a call with
    starts,               \* the start_agent_loop calls: where each is, and the
                          \* loop tasks they have spawned that have not ended
    lp,                   \* the spawn_agent_loop call and its loop task: position and locals
    ui,                   \* the status and tool_output events emitted to the window
    \* calls made from outside the loop
    tm,                   \* the last terminal_manager call, its result, and what
                          \* has become of the AgentSession and of the child shells
    pf                    \* a call of a pure function: its arguments and its result

parserVars == <<p_input, p_pos, parser, p_log, p_last, p_follow>>

ptyVars == <<sh, pty_in, pty_chan, fo>>

execVars == <<terminal_session_id, sessions, command_buffer, rx, ex, calls>>

loopVars == <<gw, status, history, repo, faults, starts, lp, ui>>

callVars == <<tm, pf>>

\* The parts that are not at work while the loop and the executor run.
restVars == <<parserVars, callVars>>

vars == <<p_input, p_pos, parser, p_log, p_last, p_follow,
          terminal_session_id, sessions, command_buffer, sh, pty_in, pty_chan, fo, rx, ex,
          calls, gw, status, history, repo, faults, starts, lp, ui, tm, pf>>

\* No terminal_manager call has been made; the AgentSession lives and no child
\* has been killed
TmOff ==
    [call |-> "none", id |-> "none", result |-> "none", dropped |-> FALSE, killed |-> {},
     writes |-> 0]

\* No pure function is being called
PfOff == [fn |-> "none"]

InitCallsOff == tm = TmOff /\ pf = PfOff

\* No spawn_agent_loop call: the session as AgentSession::new leaves it
LoopOff ==
    [pc |-> "off", steps |-> <<>>, parser |-> NewParser, stream |-> <<>>,
     current_tool_name |-> <<>>, current_tool_args |-> <<>>,
     assistant_content |-> <<>>, tool_calls |-> <<>>, next |-> 1, turns |-> 0]

\* The start_agent_loop calls of the window beside the one that is modelled
\* by the loop itself: none
StartsOff == [pc |-> <<>>, tasks |-> {}]

InitLoopOff ==
    /\ gw = "mock"
    /\ status = FALSE
    /\ history = <<>>
    /\ repo = <<>>
    /\ faults = 0
    /\ starts = StartsOff
    /\ lp = LoopOff
    /\ ui = <<>>

\* ------------------------------------------------------------------------
\* Text of the executor. A text is a sequence of atoms: an atom is one
\* character, or a literal that no chunk boundary of the model splits.
\* ------------------------------------------------------------------------
IsSpace(a) == a \in {" ", "\n", "\r", "\t"}

\* str::trim_start
RECURSIVE TrimStart(_)
TrimStart(s) == IF s # <<>> /\ IsSpace(s[1]) THEN TrimStart(Tail(s)) ELSE s

\* str::trim_end
RECURSIVE TrimEnd(_)
TrimEnd(s) == IF s # <<>> /\ IsSpace(s[Len(s)]) THEN TrimEnd(Upto(s, Len(s) - 1)) ELSE s

\* str::trim
Trim(s) == TrimEnd(TrimStart(s))

\* str::trim_start_matches(&str): strips the prefix as often as it repeats
RECURSIVE TrimStartMatches(_, _)
TrimStartMatches(s, pat) ==
    IF StartsWith(s, pat) THEN TrimStartMatches(From(s, Len(pat)), pat) ELSE s

\* str::ends_with
EndsWith(s, pat) == Len(pat) <= Len(s) /\ SubSeq(s, Len(s) - Len(pat) + 1, Len(s)) = pat

DigitChars == <<"0", "1", "2", "3", "4", "5", "6", "7", "8", "9">>

IsDigit(a) == \E i \in 1..10 : DigitChars[i] = a

DigitValue(a) == (CHOOSE i \in 1..10 : DigitChars[i] = a) - 1

RECURSIVE DigitsValue(_)
DigitsValue(s) ==
    IF s = <<>> THEN 0 ELSE 10 * DigitsValue(Upto(s, Len(s) - 1)) + DigitValue(s[Len(s)])

\* str::parse::<i32>: an optional sign, then at least one digit, within the
\* range of i32; -1 stands for Err in the ok field
ParseI32(s) ==
    LET signed == s # <<>> /\ s[1] \in {"+", "-"}
        digits == IF signed THEN Tail(s) ELSE s
        wellFormed == digits # <<>> /\ \A i \in DOMAIN digits : IsDigit(digits[i])
        mag == DigitsValue(digits)
        val == IF signed /\ s[1] = "-" THEN 0 - mag ELSE mag
    IN  IF wellFormed /\ val >= (0 - 2147483647) - 1 /\ val <= 2147483647
        THEN [ok |-> TRUE, val |-> val]
        ELSE [ok |-> FALSE, val |-> 0]

\* Display of an i32
RECURSIVE FormatNat(_)
FormatNat(n) ==
    IF n < 10 THEN <<DigitChars[n + 1]>> ELSE FormatNat(n \div 10) \o <<DigitChars[(n % 10) + 1]>>

FormatInt(n) == IF n < 0 THEN <<"-">> \o FormatNat(0 - n) ELSE FormatNat(n)

\* "IRONGRAPH_CMD_DONE:"
SENTINEL == <<"IRONGRAPH_CMD_DONE", ":">>

\* format_with_sentinel that ends every line with "\n"
FormatWithSentinelLf(shell, command) ==
    CASE shell = "Bash" ->
           command \o <<";", " ", "echo", " ", "\"">> \o SENTINEL \o <<"$?", "\"", "\n">>
      [] shell = "Cmd" ->
           command \o <<" ", "&", " ", "echo", " ">> \o SENTINEL \o <<"%ERRORLEVEL%", "\n">>
      [] OTHER ->
           command \o <<";", " ", "Write-Host", " ", "\"">> \o SENTINEL
                   \o <<"$LASTEXITCODE", "\"", "\n">>

\* ShellType::format_with_sentinel
FormatWithSentinel(shell, command) ==
    CASE shell = "Bash" ->
           command \o <<";", " ", "echo", " ", "\"">> \o SENTINEL \o <<"$?", "\"", "\n">>
      [] shell = "Cmd" ->
           command \o <<" ", "&", " ", "echo", " ">> \o SENTINEL \o <<"%ERRORLEVEL%", "\r", "\n">>
      [] OTHER ->
           command \o <<";", " ", "Write-Host", " ", "\"">> \o SENTINEL
                   \o <<"$LASTEXITCODE", "\"", "\r", "\n">>

\* #[cfg(not(target_os = "windows"))] let shell_type = ShellType::Bash
ShellTypeOfHost == "Bash"

\* std::time::Duration::from_secs(30): the wall-clock budget of run_command
EXEC_TIMEOUT_SECS == 30

\* Duration::from_secs(5): the per-chunk read timeout
CHUNK_TIMEOUT_SECS == 5

TIMEOUT_MSG == <<"\n[IronGraph: Timeout waiting for sentinel]">>

NO_TERMINAL == <<"Error: ", "No terminal session active.">>

\* format!("Error writing to PTY: {}", e) with the Display of ShellError
ErrWritingToPty(e) == <<"Error writing to PTY: ", e>>

SHELL_ERR_NOT_FOUND == "Command not found: Session ID"

SHELL_ERR_IO == "IO Error: write"

\* format!("{}\n(Exit Code: {})", ret.trim(), exit_code). The outputs of the
\* commands of this model name no source location, so try_parse_error_context
\* finds nothing to append.
FinalOutput(ret, exit_code) ==
    Trim(ret) \o <<"\n", "(Exit Code: ">> \o FormatInt(exit_code) \o <<")">>

\* format!("Unknown Tool: {}", tool.name)
UnknownTool(name) == <<"Unknown Tool: ">> \o name

RUN_COMMAND == <<"r", "u", "n", "_", "c", "o", "m", "m", "a", "n", "d">>

KEY_PROGRAM == <<"p", "r", "o", "g", "r", "a", "m">>

KEY_ARGS == <<"a", "r", "g", "s">>

\* tool.arguments.get(key).cloned().unwrap_or_default()
GetArg(arguments, key) == IF key \in DOMAIN arguments THEN arguments[key] ELSE <<>>

\* shlex::split for texts of words, blanks and double quotes: words are
\* separated by blanks, a double-quoted stretch belongs to one word, and an
\* unbalanced quote makes the split fail (None, here <<"None">>).
RECURSIVE ShlexScan(_, _, _, _, _)
ShlexScan(s, words, cur, inWord, inQuote) ==
    IF s = <<>>
    THEN IF inQuote THEN <<"None">>
         ELSE IF inWord THEN <<"Some", Append(words, cur)>> ELSE <<"Some", words>>
    ELSE LET c == Head(s)
         IN  IF c = "\"" THEN ShlexScan(Tail(s), words, cur, TRUE, ~inQuote)
             ELSE IF IsSpace(c) /\ ~inQuote
                  THEN IF inWord THEN ShlexScan(Tail(s), Append(words, cur), <<>>, FALSE, FALSE)
                       ELSE ShlexScan(Tail(s), words, cur, FALSE, FALSE)
                  ELSE ShlexScan(Tail(s), words, Append(cur, c), TRUE, inQuote)

\* shlex::split(&args_str).unwrap_or_default()
ShlexSplit(s) ==
    LET r == ShlexScan(s, <<>>, <<>>, FALSE, FALSE)
    IN  IF r[1] = "Some" THEN r[2] ELSE <<>>

\* args.join(" ")
RECURSIVE JoinSpace(_)
JoinSpace(ws) ==
    IF ws = <<>> THEN <<>>
    ELSE IF Len(ws) = 1 THEN ws[1] ELSE ws[1] \o <<" ">> \o JoinSpace(Tail(ws))

\* let cmd_str = if args.is_empty() { program } else { format!("{} {}", ...) }
CmdStr(tool) ==
    LET program == GetArg(tool.arguments, KEY_PROGRAM)
        args == ShlexSplit(GetArg(tool.arguments, KEY_ARGS))
    IN  IF args = <<>> THEN program ELSE program \o <<" ">> \o JoinSpace(args)

\* ------------------------------------------------------------------------
\* Bounds of the PTY environment
\* ------------------------------------------------------------------------
\* Chunks a channel holds: the one from the reader thread to the fan-out task
\* and the one of the CommandBuffer (both of capacity 100 in the code).
MaxInFlight == 1

\* Chunks a command that never prints the sentinel prints.
MaxChatter == 8

\* execute_tool invocations of one run of the executor.
MaxCommands == 1

\* Exit statuses of the commands the shell runs.
ExitCodes == {0, 127}

\* What a command prints before it ends.
CommandOutputs == {<<"hello", "\n">>}

\* Seconds a chunk may take to arrive within the per-chunk timeout: at once,
\* or just before the timeout.
ChunkDelays == {0, CHUNK_TIMEOUT_SECS - 1}

\* start.elapsed() after d more seconds. The code only compares it with the
\* wall-clock budget, so the clock stops one second past the budget.
Elapsed(elapsed, d) == MinOf({elapsed + d, EXEC_TIMEOUT_SECS + 1})

\* ------------------------------------------------------------------------
\* The shell behind the PTY, the reader thread and the fan-out task
\* ------------------------------------------------------------------------
\* What the programs of the workspace do when the shell runs them: how a
\* command may behave ("exit": it ends; "hung": it never ends and prints
\* nothing; "chatter": it never ends and keeps printing), the exit statuses
\* and outputs of the commands that end, and whether the reader thread gets
\* the output of the PTY in arbitrary pieces or as it was written; and whether
\* the terminal echoes the line typed into it.
AnyPrograms ==
    [modes |-> {"exit", "hung", "chatter"}, codes |-> ExitCodes, outs |-> CommandOutputs,
     pieces |-> TRUE, echo |-> BOOLEAN]

\* Programs that end at once, always with the status c, their output read in one piece
PromptPrograms(c) ==
    [modes |-> {"exit"}, codes |-> {c}, outs |-> {<<"hello", "\n">>}, pieces |-> FALSE,
     echo |-> {FALSE}]

\* No PTY session: start_terminal_session was not called or failed
ShellOff(programs) ==
    [alive |-> FALSE, mode |-> "idle", pending |-> <<>>, left |-> 0, codes |-> <<>>,
     programs |-> programs]

\* /bin/bash spawned by start_terminal_session
ShellOn(programs) == [ShellOff(programs) EXCEPT !.alive = TRUE]

\* tid is the id the task has captured; sink is what the window has been
\* sent on the terminal output events, kept when watch is set
FanoutOff ==
    [pc |-> "off", chunk |-> <<>>, target |-> 0, tid |-> "none", watch |-> FALSE,
     sink |-> <<>>]

\* the task spawned after start_terminal_session: while let Some(out) = rx.recv().await
FanoutOn == [FanoutOff EXCEPT !.pc = "recv", !.tid = "t1"]

\* format!("agent:terminal:output:{}", tid) with its payload
TerminalOutput(tid, out) == [event |-> <<"agent:terminal:output:", tid>>, payload |-> out]

\* win_clone.emit(event, out.clone())
EmitTerminal(f, out) ==
    IF f.watch THEN [f EXCEPT !.sink = Append(@, TerminalOutput(f.tid, out))] ELSE f

InitPtyIdle(programs) ==
    /\ sh = ShellOff(programs)
    /\ pty_in = <<>>
    /\ pty_chan = <<>>
    /\ fo = FanoutOff

\* start_terminal_session succeeded: /bin/bash runs, the fan-out task waits
InitPtyStarted(programs) ==
    /\ sh = ShellOn(programs)
    /\ pty_in = <<>>
    /\ pty_chan = <<>>
    /\ fo = FanoutOn

\* The epilogue bash runs after the command: echo "IRONGRAPH_CMD_DONE:$?"
BashEcho == <<"echo", " ", "\"">> \o SENTINEL \o <<"$?", "\"", "\n">>

RECURSIVE Glue(_)
\* the text s as one literal
Glue(s) == IF s = <<>> THEN "" ELSE Head(s) \o Glue(Tail(s))

\* What the terminal sends back when the line is typed into it: the line
\* itself, here as the literal before the sentinel text, the sentinel text and
\* the literal after it
TtyEcho(line) ==
    LET idx == Find(line, SENTINEL)
    IN  IF idx < 0 THEN <<Glue(line)>>
        ELSE <<Glue(Upto(line, idx))>> \o SENTINEL \o <<Glue(From(line, idx + Len(SENTINEL)))>>

\* bash reads a line, runs the command and then the echo of the line, which
\* prints the sentinel with the command's exit status. The command ends with
\* some status after printing some output, or never ends and prints nothing,
\* or never ends and keeps printing.
ShellRunLine ==
    /\ sh.alive /\ sh.mode = "idle" /\ pty_in # <<>>
    /\ pty_in' = Tail(pty_in)
    /\ LET line == Head(pty_in).line
           k == Head(pty_in).call
       IN  \/ /\ "exit" \in sh.programs.modes
              /\ \E n \in sh.programs.codes, out \in sh.programs.outs :
                   sh' = [sh EXCEPT
                            !.pending = @ \o out \o
                               (IF EndsWith(line, BashEcho)
                                THEN SENTINEL \o FormatInt(n) \o <<"\n">> ELSE <<>>),
                            !.codes = (k :> n) @@ @]
           \/ /\ "hung" \in sh.programs.modes
              /\ sh' = [sh EXCEPT !.mode = "hung"]
           \/ /\ "chatter" \in sh.programs.modes
              /\ sh' = [sh EXCEPT !.mode = "chatter", !.left = MaxChatter]
    /\ UNCHANGED <<pty_chan, fo>>

\* a command that keeps printing
ShellChatter ==
    /\ sh.alive /\ sh.mode = "chatter" /\ sh.left > 0 /\ sh.pending = <<>>
    /\ sh' = [sh EXCEPT !.pending = <<".">>, !.left = @ - 1]
    /\ UNCHANGED <<pty_in, pty_chan, fo>>

\* the shell process ends (exit typed into the terminal, or killed)
ShellDies ==
    /\ sh.alive
    /\ sh' = [sh EXCEPT !.alive = FALSE, !.mode = "idle", !.left = 0]
    /\ UNCHANGED <<pty_in, pty_chan, fo>>

\* Reader thread: reader.read(&mut buffer) returns some of what the PTY holds,
\* output_tx.blocking_send(s) queues it
ReaderRead ==
    /\ sh.pending # <<>>
    /\ Len(pty_chan) < MaxInFlight
    /\ \E n \in (IF sh.programs.pieces THEN 1..Len(sh.pending) ELSE {Len(sh.pending)}) :
          /\ pty_chan' = Append(pty_chan, Upto(sh.pending, n))
          /\ sh' = [sh EXCEPT !.pending = From(@, n)]
    /\ UNCHANGED <<pty_in, fo>>

\* Fan-out task that tees nothing
FanoutRecvNoTee ==
    /\ fo.pc = "recv" /\ pty_chan # <<>>
    /\ pty_chan' = Tail(pty_chan)
    /\ fo' = EmitTerminal(fo, Head(pty_chan))
    /\ UNCHANGED <<sh, pty_in>>

\* Fan-out task: rx.recv(), emit to the UI, clone the command_buffer slot
FanoutRecv ==
    /\ fo.pc = "recv" /\ pty_chan # <<>>
    /\ pty_chan' = Tail(pty_chan)
    /\ fo' = IF command_buffer = 0
             THEN EmitTerminal(fo, Head(pty_chan))
             ELSE [EmitTerminal(fo, Head(pty_chan)) EXCEPT
                     !.pc = "send", !.chunk = Head(pty_chan), !.target = command_buffer]
    /\ UNCHANGED <<sh, pty_in>>

\* Fan-out task: let _ = sender.send(out).await; a send to a channel whose
\* receiver is gone fails and is ignored
FanoutSend ==
    /\ fo.pc = "send"
    /\ rx.id = fo.target => Len(rx.q) < MaxInFlight
    /\ fo' = [fo EXCEPT !.pc = "recv", !.chunk = <<>>, !.target = 0]
    /\ rx' = IF rx.id = fo.target THEN [rx EXCEPT !.q = Append(@, fo.chunk)] ELSE rx
    /\ UNCHANGED <<sh, pty_in, pty_chan>>

\* ------------------------------------------------------------------------
\* execute_tool
\* ------------------------------------------------------------------------
NoRx == [id |-> 0, q |-> <<>>]

NoTool == [name |-> <<>>, arguments |-> <<>>]

\* arm: whether execute_tool returned from an arm that handles a failure
ExIdle ==
    [pc |-> "idle", tool |-> NoTool, output |-> <<>>, elapsed |-> 0, result |-> <<>>,
     arm |-> "none"]

InitExecIdle ==
    /\ terminal_session_id = "none"
    /\ sessions = {}
    /\ command_buffer = 0
    /\ rx = NoRx
    /\ ex = ExIdle
    /\ calls = 0

Return(result) == [ex EXCEPT !.pc = "ret", !.result = result, !.arm = "ok"]

\* the return of an arm that handles a failure
ReturnErr(result) == [ex EXCEPT !.pc = "ret", !.result = result, !.arm = "err"]

\* terminal_manager::write_to_pty: the possible outcomes, "Ok" or the Display
\* of the ShellError. Whether write_all to the master of a PTY whose shell has
\* ended fails depends on the platform.
WriteToPty(session_id) ==
    IF session_id \notin sessions THEN {SHELL_ERR_NOT_FOUND}
    ELSE IF ~sh.alive THEN {"Ok", SHELL_ERR_IO}
    ELSE {"Ok"}

\* "run_command": no terminal session, or a fresh channel installed in the slot
ExecRunCommandStart ==
    /\ ex.pc = "start" /\ ex.tool.name = RUN_COMMAND
    /\ IF terminal_session_id = "none"
       THEN /\ ex' = ReturnErr(NO_TERMINAL)
            /\ UNCHANGED <<command_buffer, rx>>
       ELSE /\ command_buffer' = calls
            /\ rx' = [id |-> calls, q |-> <<>>]
            /\ ex' = [ex EXCEPT !.pc = "write"]
    /\ UNCHANGED <<terminal_session_id, sessions, calls, ptyVars>>

\* "run_command": the sentinel-wrapped line is written to the PTY
ExecRunCommandWrite ==
    /\ ex.pc = "write"
    /\ LET sentinel_cmd == FormatWithSentinel(ShellTypeOfHost, CmdStr(ex.tool))
       IN  \E w \in WriteToPty(terminal_session_id) :
             IF w # "Ok"
             THEN /\ ex' = ReturnErr(ErrWritingToPty(w))
                  /\ rx' = NoRx
                  /\ UNCHANGED <<pty_in, sh>>
             ELSE /\ pty_in' = Append(pty_in, [line |-> sentinel_cmd, call |-> calls])
                  /\ \E echo \in sh.programs.echo :
                       sh' = IF echo /\ sh.alive
                             THEN [sh EXCEPT !.pending = @ \o TtyEcho(sentinel_cmd)]
                             ELSE sh
                  /\ ex' = [ex EXCEPT !.pc = "wait", !.output = <<>>, !.elapsed = 0]
                  /\ UNCHANGED rx
    /\ UNCHANGED <<terminal_session_id, sessions, command_buffer, calls, pty_chan, fo>>

\* "run_command": Ok(Some(s)) of timeout(5 s, rx.recv()), then the sentinel scan
ExecRunCommandChunk ==
    /\ ex.pc = "wait" /\ rx.q # <<>>
    /\ \E d \in ChunkDelays :
         LET output == ex.output \o Head(rx.q)
             idx == Find(output, SENTINEL)
             ret == Upto(output, idx)
             code_str == Trim(TrimStartMatches(From(output, idx), SENTINEL))
             parsed == ParseI32(code_str)
             exit_code == IF parsed.ok THEN parsed.val ELSE 1
         IN  IF idx >= 0
             THEN /\ command_buffer' = 0
                  /\ rx' = NoRx
                  /\ ex' = [Return(FinalOutput(ret, exit_code))
                               EXCEPT !.output = output, !.elapsed = Elapsed(@, d)]
             ELSE /\ rx' = [rx EXCEPT !.q = Tail(@)]
                  /\ ex' = [ex EXCEPT !.output = output, !.elapsed = Elapsed(@, d)]
                  /\ UNCHANGED command_buffer
    /\ UNCHANGED <<terminal_session_id, sessions, calls, ptyVars>>

\* "run_command": Err(_) of timeout(5 s, rx.recv()): no chunk for 5 s
ExecRunCommandTimeout ==
    /\ ex.pc = "wait" /\ rx.q = <<>>
    /\ LET elapsed == Elapsed(ex.elapsed, CHUNK_TIMEOUT_SECS)
       IN  IF elapsed > EXEC_TIMEOUT_SECS
           THEN /\ command_buffer' = 0
                /\ rx' = NoRx
                /\ ex' = [Return(ex.output \o TIMEOUT_MSG)
                             EXCEPT !.output = ex.output \o TIMEOUT_MSG, !.elapsed = elapsed]
           ELSE /\ ex' = [ex EXCEPT !.elapsed = elapsed]
                /\ UNCHANGED <<command_buffer, rx>>
    /\ UNCHANGED <<terminal_session_id, sessions, calls, ptyVars>>

\* _ => format!("Unknown Tool: {}", tool.name)
\* The tools that work on the workspace.
LIST_FILES == <<"l", "i", "s", "t", "_", "f", "i", "l", "e", "s">>

READ_FILE == <<"r", "e", "a", "d", "_", "f", "i", "l", "e">>

WRITE_FILE == <<"w", "r", "i", "t", "e", "_", "f", "i", "l", "e">>

READ_SKELETON == <<"r", "e", "a", "d", "_", "s", "k", "e", "l", "e", "t", "o", "n">>

SEARCH_CODE == <<"s", "e", "a", "r", "c", "h", "_", "c", "o", "d", "e">>

EffectorTools == {LIST_FILES, READ_FILE, WRITE_FILE, READ_SKELETON, SEARCH_CODE}

\* The Display of the error an effector of the workspace fails with.
EFFECTOR_ERR == "No such file or directory"

\* What an effector returns on success: the listing, the content, the
\* skeleton, the matches; for write_file the fixed text, with the context note
\* when the file has consumers
EffectorOk(name) ==
    IF name = WRITE_FILE
    THEN {<<"Successfully wrote file.">>,
          <<"Successfully wrote file.", "\n\n[Context Note] This file is imported by:\n",
            "- a.rs\n", "Ensure you have not broken these consumers.">>}
    ELSE IF name = LIST_FILES THEN {<<"[DIR] ", "src">>}
    ELSE {<<"fn main() {}">>}

\* format!("Error: {}", e)
ErrPlain(e) == <<"Error: ", e>>

\* The Err arms of the effector tools: "Error: {e}", and for read_skeleton
\* "Error reading file: {e}" and "Error generating skeleton: {e}"
EffectorErr(name) ==
    IF name = READ_SKELETON
    THEN {<<"Error reading file: ", EFFECTOR_ERR>>,
          <<"Error generating skeleton: ", EFFECTOR_ERR>>}
    ELSE {ErrPlain(EFFECTOR_ERR)}

\* "list_files", "read_file", "write_file", "read_skeleton", "search_code":
\* the effector succeeds or fails
ExecEffectorTool ==
    /\ ex.pc = "start" /\ ex.tool.name \in EffectorTools
    /\ \/ \E text \in EffectorOk(ex.tool.name) : ex' = Return(text)
       \/ \E text \in EffectorErr(ex.tool.name) : ex' = ReturnErr(text)
    /\ UNCHANGED <<terminal_session_id, sessions, command_buffer, rx, calls, ptyVars>>

ExecUnknownTool ==
    /\ ex.pc = "start" /\ ex.tool.name \notin {RUN_COMMAND} \cup EffectorTools
    /\ ex' = Return(UnknownTool(ex.tool.name))
    /\ UNCHANGED <<terminal_session_id, sessions, command_buffer, rx, calls, ptyVars>>

ExecStep ==
    \/ ExecRunCommandStart
    \/ ExecRunCommandWrite
    \/ ExecRunCommandChunk
    \/ ExecRunCommandTimeout
    \/ ExecEffectorTool
    \/ ExecUnknownTool

PtyStep ==
    \/ ShellRunLine /\ UNCHANGED execVars
    \/ ShellChatter /\ UNCHANGED execVars
    \/ ShellDies /\ UNCHANGED execVars
    \/ ReaderRead /\ UNCHANGED execVars
    \/ FanoutRecv /\ UNCHANGED execVars
    \/ FanoutSend /\ UNCHANGED <<terminal_session_id, sessions, command_buffer, ex, calls>>

\* ------------------------------------------------------------------------
\* Parser inputs
\* ------------------------------------------------------------------------
TOOL_FOO == <<"<", "t", "o", "o", "l", " ", "n", "a", "m", "e", "=", "\"", "f", "o", "o", "\"", ">">>

ARG_A == <<"<", "a", ">", "1", "<", "/", "a", ">">>

\* <tool_code><tool name="foo"><a>1</a></tool></tool_code>
S2Input == TOOL_CODE_OPEN \o TOOL_FOO \o ARG_A \o TOOL_CLOSE \o TOOL_CODE_CLOSE

\* <tool_code><tool name="foo"></tool></tool_code>
EmptyToolInput == TOOL_CODE_OPEN \o TOOL_FOO \o TOOL_CLOSE \o TOOL_CODE_CLOSE

Pieces == {<<"x">>, <<"<">>, TOOL_OPEN, TOOL_CODE_OPEN, TOOL_FOO, ARG_A, TOOL_CLOSE, TOOL_CODE_CLOSE}

RECURSIVE PieceTexts(_)
PieceTexts(n) ==
    IF n = 0 THEN {<<>>}
    ELSE LET shorter == PieceTexts(n - 1)
         IN  shorter \cup {t \o pc : t \in shorter, pc \in Pieces}

\* x<tool_code><tool name="foo"></tool><tool name="foo"><a>1</a></tool></tool_code>x
TwoToolsInput ==
    <<"x">> \o TOOL_CODE_OPEN \o TOOL_FOO \o TOOL_CLOSE \o TOOL_FOO \o ARG_A \o TOOL_CLOSE
            \o TOOL_CODE_CLOSE \o <<"x">>

ParserInputs == (PieceTexts(MaxPieces) \ {<<>>}) \cup {S2Input, EmptyToolInput, TwoToolsInput}

\* ------------------------------------------------------------------------
\* Event sequences
\* ------------------------------------------------------------------------
\* Append with Token coalescing
Coalesce(log, ev) ==
    IF ev.type = "Token" /\ log # <<>> /\ log[Len(log)].type = "Token"
    THEN [log EXCEPT ![Len(log)] = Token(@.a \o ev.a)]
    ELSE Append(log, ev)

RECURSIVE CoalesceAll(_, _)
CoalesceAll(log, evs) ==
    IF evs = <<>> THEN log ELSE CoalesceAll(Coalesce(log, Head(evs)), Tail(evs))

RECURSIVE ToolEventsOf(_)
ToolEventsOf(evs) ==
    IF evs = <<>> THEN <<>>
    ELSE IF Head(evs).type \in {"ToolStart", "ToolArg", "ToolEnd"}
         THEN <<Head(evs)>> \o ToolEventsOf(Tail(evs))
         ELSE ToolEventsOf(Tail(evs))

RECURSIVE TokenText(_)
TokenText(evs) ==
    IF evs = <<>> THEN <<>>
    ELSE IF Head(evs).type = "Token"
         THEN Head(evs).a \o TokenText(Tail(evs))
         ELSE TokenText(Tail(evs))

\* ------------------------------------------------------------------------
\* Specification of the parser: a text fed in arbitrary fragments
\* ------------------------------------------------------------------------
InitParser ==
    /\ p_input \in ParserInputs
    /\ p_pos = 0
    /\ parser = NewParser
    /\ p_log = <<>>
    /\ p_last = <<>>
    /\ p_follow = <<>>
    /\ InitCallsOff
    /\ InitPtyIdle(AnyPrograms)
    /\ InitExecIdle
    /\ InitLoopOff

\* One process_chunk call with the next n characters of the text
FeedChunk(n) ==
    LET r == ProcessChunk(parser, SubSeq(p_input, p_pos + 1, p_pos + n))
    IN  /\ parser' = r.p
        /\ p_pos' = p_pos + n
        /\ p_log' = CoalesceAll(p_log, r.events)
        /\ p_last' = r.events
        /\ p_follow' = r.follow
        /\ UNCHANGED <<p_input, ptyVars, execVars, loopVars, callVars>>

Feed ==
    /\ p_pos < Len(p_input)
    /\ \E n \in 1..(Len(p_input) - p_pos) : FeedChunk(n)

\* parser.process_chunk("") once the upstream text is exhausted
FeedEmpty ==
    /\ p_pos = Len(p_input)
    /\ FeedChunk(0)

NextParser == Feed \/ FeedEmpty

SpecParser == InitParser /\ [][NextParser]_vars


\* ------------------------------------------------------------------------
\* Specification of the executor: execute_tool called with tool calls, one
\* after the other, on a session whose PTY session started or did not
\* ------------------------------------------------------------------------
InitParserOff ==
    /\ p_input = <<>>
    /\ p_pos = 0
    /\ parser = NewParser
    /\ p_log = <<>>
    /\ p_last = <<>>
    /\ p_follow = <<>>

InitParserIdle == InitParserOff /\ InitCallsOff

TEXT_LS == <<"l", "s">>

TEXT_LA == <<"-", "l", "a">>

TEXT_FOO == <<"f", "o", "o">>

\* run_command(program="ls", args="-la")
ToolLs == [name |-> RUN_COMMAND, arguments |-> (KEY_PROGRAM :> TEXT_LS) @@ (KEY_ARGS :> TEXT_LA)]

\* a tool outside the catalogue
ToolFoo == [name |-> TEXT_FOO, arguments |-> <<>>]

\* the effector tools, called without arguments
ToolsOfWorkspace == {[name |-> n, arguments |-> <<>>] : n \in EffectorTools}

ExecTools == {ToolLs, ToolFoo} \cup ToolsOfWorkspace

InitExec ==
    /\ InitParserIdle
    /\ InitLoopOff
    /\ \/ InitPtyIdle(AnyPrograms) /\ InitExecIdle
       \/ /\ InitPtyStarted(AnyPrograms)
          /\ terminal_session_id = "t1"
          /\ sessions = {"t1"}
          /\ command_buffer = 0
          /\ rx = NoRx
          /\ ex = ExIdle
          /\ calls = 0

\* execute_tool(&tool, ...) is entered
CallExecuteTool ==
    /\ ex.pc = "idle" /\ calls < MaxCommands
    /\ \E tool \in ExecTools : ex' = [ExIdle EXCEPT !.pc = "start", !.tool = tool]
    /\ calls' = calls + 1
    /\ UNCHANGED <<terminal_session_id, sessions, command_buffer, rx, ptyVars>>

\* the caller takes the returned String
TakeResult ==
    /\ ex.pc = "ret"
    /\ ex' = ExIdle
    /\ UNCHANGED <<terminal_session_id, sessions, command_buffer, rx, calls, ptyVars>>

NextExec ==
    \/ CallExecuteTool /\ UNCHANGED <<restVars, loopVars>>
    \/ TakeResult /\ UNCHANGED <<restVars, loopVars>>
    \/ ExecStep /\ UNCHANGED <<restVars, loopVars>>
    \/ PtyStep /\ UNCHANGED <<restVars, loopVars>>

SpecExec == InitExec /\ [][NextExec]_vars

\* The events of feeding the text in one call
Whole(text) == ProcessChunk(NewParser, text).events

\* ------------------------------------------------------------------------
\* C1: chunk-insensitivity. Once the text is fed completely, whatever the
\* fragments were, the tool events are those of feeding it in one call and
\* the concatenated Token payloads are equal.
\* ------------------------------------------------------------------------
C1_ChunkInsensitive ==
    p_pos = Len(p_input) =>
        /\ ToolEventsOf(p_log) = ToolEventsOf(Whole(p_input))
        /\ TokenText(p_log) = TokenText(Whole(p_input))

\* ------------------------------------------------------------------------
\* C2: the <a>1</a> pair of the text
\* <tool_code><tool name="foo"><a>1</a></tool></tool_code> yields exactly one
\* ToolArg("a","1"), between ToolStart("foo") and ToolEnd, whatever the
\* fragment boundaries.
\* ------------------------------------------------------------------------
C2_ArgPairEmitted ==
    (p_input = S2Input /\ p_pos = Len(p_input)) =>
        ToolEventsOf(p_log) =
            <<ToolStart(<<"f", "o", "o">>), ToolArg(<<"a">>, <<"1">>), ToolEnd>>

\* ------------------------------------------------------------------------
\* C3
\* ------------------------------------------------------------------------
IsProperPrefixOfToolCode(u) ==
    u # <<>> /\ Len(u) < Len(TOOL_CODE_OPEN) /\ Upto(TOOL_CODE_OPEN, Len(u)) = u

EndsWithPartialTag(t) ==
    \E k \in 1..Len(t) : IsProperPrefixOfToolCode(SubSeq(t, Len(t) - k + 1, Len(t)))

\* C3 as stated: no emitted Token ends with a non-empty proper prefix of
\* "<tool_code>".
C3_NoTokenEndsWithPartialTag ==
    \A i \in DOMAIN p_last :
        p_last[i].type = "Token" => ~EndsWithPartialTag(p_last[i].a)

\* C3 as amended: a Token ends with a non-empty proper prefix of "<tool_code>"
\* only when the input already received continues with "<" right after the
\* Token, which rules that suffix out as the start of "<tool_code>"; the text
\* from that "<" on is what the parser keeps.
C3_NoAmbiguousTokenSuffix ==
    \A i \in DOMAIN p_last :
        (p_last[i].type = "Token" /\ EndsWithPartialTag(p_last[i].a)) =>
            p_follow[i] = "<"

\* A Token ending with a partial tag has been emitted.
C3_Witness ==
    \E i \in DOMAIN p_last :
        p_last[i].type = "Token" /\ EndsWithPartialTag(p_last[i].a)

\* ------------------------------------------------------------------------
\* Command executor
\* ------------------------------------------------------------------------
\* SpecExec calls execute_tool once per command and lets the PTY, the reader
\* thread and the fan-out task run beside it.

\* C4: while the run_command executor runs, a subscriber is installed in the
\* command_buffer slot of the session, and when the executor has returned, by
\* whichever exit path, the slot is None.
C4_CommandBufferCleared ==
    /\ ex.pc \in {"write", "wait"} => command_buffer # 0
    /\ (ex.pc = "ret" /\ ex.tool.name = RUN_COMMAND) => command_buffer = 0

EXIT_CODE_OPEN == <<"(Exit Code: ">>

\* C5: when the command of this call ended on the shell with status N, the
\* result the executor returns ends with "(Exit Code: N)", however the output
\* of the PTY was cut into chunks.
C5_SentinelCompleteness ==
    (ex.pc = "ret" /\ calls \in DOMAIN sh.codes) =>
        EndsWith(ex.result, EXIT_CODE_OPEN \o FormatInt(sh.codes[calls]) \o <<")">>)

\* C6: the executor never waits for a chunk once the wall-clock budget of the
\* command is spent: whatever the PTY emits, it has returned by then.
C6_WallClockBounded ==
    ex.pc = "wait" => ex.elapsed <= EXEC_TIMEOUT_SECS

\* ------------------------------------------------------------------------
\* Gateway: stream_chat
\* ------------------------------------------------------------------------
\* Chunks of the mock gateway.
MOCK_CHUNK_SIZE == 5

\* mock_text of stream_chat, in two parts
MOCK_PROSE ==
    <<"C", "h", "e", "c", "k", "i", "n", "g", " ", "f", "i", "l", "e", "s", "y", "s", "t", "e",
      "m", ".", ".", ".", " ", "\n">>

MOCK_TOOL_CODE ==
    <<"<", "t", "o", "o", "l", "_", "c", "o", "d", "e", ">", "<", "t", "o", "o", "l", " ", "n",
      "a", "m", "e", "=", "\"", "r", "u", "n", "_", "c", "o", "m", "m", "a", "n", "d", "\"",
      ">", "<", "p", "r", "o", "g", "r", "a", "m", ">", "l", "s", "<", "/", "p", "r", "o", "g",
      "r", "a", "m", ">", "<", "a", "r", "g", "s", ">", "-", "l", "a", "<", "/", "a", "r", "g",
      "s", ">", "<", "/", "t", "o", "o", "l", ">", "<", "/", "t", "o", "o", "l", "_", "c", "o",
      "d", "e", ">">>

MOCK_TEXT == MOCK_PROSE \o MOCK_TOOL_CODE

\* text.chars().collect::<Vec<char>>().chunks(n)
Chunks(text, n) ==
    [i \in 1..((Len(text) + n - 1) \div n) |->
        SubSeq(text, (i - 1) * n + 1, MinOf({i * n, Len(text)}))]

\* What a stream_chat call still has to do, as a list of steps: "fail" (the
\* request fails or the status is no success), "content" (a text goes through
\* process_chunk: a chunk of the mock text, or the content delta of a data
\* line), "err" (a chunk of the body fails), "done" (Done is yielded and the
\* stream returns).
Content(text) == [kind |-> "content", text |-> text]

HttpDone == [kind |-> "done", text |-> <<>>]

HttpFail == [kind |-> "fail", text |-> <<"API Error: 500">>]

\* client.post(...).send() fails: the transport error
SendFail == [kind |-> "fail", text |-> <<"error sending request">>]

HttpErr == [kind |-> "err", text |-> <<"error decoding response body">>]

\* A mock stream that hands the mock text to the parser in one piece.
MockStepsWhole == <<Content(MOCK_TEXT), Content(<<>>), HttpDone>>

\* stream_chat with a base_url that contains "mock": the mock text in chunks of
\* 5 characters, then process_chunk(""), then Done
MockSteps ==
    [i \in DOMAIN Chunks(MOCK_TEXT, MOCK_CHUNK_SIZE) |->
        Content(Chunks(MOCK_TEXT, MOCK_CHUNK_SIZE)[i])] \o <<Content(<<>>), HttpDone>>

\* ------------------------------------------------------------------------
\* Agent loop: spawn_agent_loop
\* ------------------------------------------------------------------------
\* Turns of a loop whose gateway answers every request with a tool call.
MaxTurns == 21

\* Answers with a tool call a live model gives before it answers in prose.
MaxLiveTurns == 2

Message(role, content) == [role |-> role, content |-> content]

SYSTEM_PROMPT == <<"You are IronGraph, an advanced AI software engineer...">>

\* initial_prompt of the call
PROMPT == <<"list">>

\* a history an earlier run of the session left in the repository
PriorHistory ==
    <<Message("system", SYSTEM_PROMPT), Message("user", <<"hi">>),
      Message("assistant", <<"o", "k">>)>>

TOOL_SKELETON == <<"<", "t", "o", "o", "l", " ", "n", "a", "m", "e", "=", "\"", "r", "e", "a", "d", "_", "s", "k", "e", "l", "e", "t", "o", "n", "\"", ">">>

TOOL_BAR == <<"<", "t", "o", "o", "l", " ", "n", "a", "m", "e", "=", "\"", "b", "a", "r", "\"", ">">>

\* What a live model answers without a tool call: prose; a JSON object; or the
\* request fails.
LiveProseAnswers ==
    { <<Content(<<"o", "k">>), HttpDone>>,
      <<Content(<<"{", "}">>), HttpDone>>,
      <<HttpFail>>,
      <<SendFail>> }

\* What a live model answers with tool calls: a call of a tool outside the
\* catalogue; prose, then a run_command call whose closing tags come in a
\* later delta; two calls in one answer; a call, after which the body breaks
\* off.
LiveToolAnswers ==
    { <<Content(TOOL_CODE_OPEN \o TOOL_FOO), Content(TOOL_CLOSE \o TOOL_CODE_CLOSE), HttpDone>>,
      <<Content(<<"x">> \o Upto(MOCK_TOOL_CODE, Len(MOCK_TOOL_CODE) - 19)),
        Content(From(MOCK_TOOL_CODE, Len(MOCK_TOOL_CODE) - 19)), HttpDone>>,
      <<Content(TOOL_CODE_OPEN \o TOOL_FOO), Content(TOOL_CLOSE \o TOOL_BAR),
        Content(TOOL_CLOSE \o TOOL_CODE_CLOSE), HttpDone>>,
      <<Content(TOOL_CODE_OPEN \o TOOL_FOO), Content(TOOL_CLOSE), HttpErr>>,
      <<Content(<<"{", "}">> \o TOOL_CODE_OPEN \o TOOL_FOO),
        Content(TOOL_CLOSE \o TOOL_CODE_CLOSE), HttpDone>>,
      <<Content(TOOL_CODE_OPEN \o TOOL_SKELETON), Content(TOOL_CLOSE \o TOOL_BAR),
        Content(TOOL_CLOSE \o TOOL_CODE_CLOSE), HttpDone>> }

\* The answers of a live model that is terse: a JSON object or a failed request,
\* and before them two tool calls in one answer.
TerseProseAnswers == {<<Content(<<"{", "}">>), HttpDone>>, <<HttpFail>>}

TerseToolAnswers ==
    { <<Content(TOOL_CODE_OPEN \o TOOL_FOO), Content(TOOL_CLOSE \o TOOL_BAR),
        Content(TOOL_CLOSE \o TOOL_CODE_CLOSE), HttpDone>> }

\* The answers of a live model over a connection that breaks: the byte stream
\* yields an error between two deltas, or as its only item
BrokenProseAnswers ==
    { <<Content(<<"o">>), HttpErr, Content(<<"k">>), HttpDone>>,
      <<HttpErr>> }

BrokenToolAnswers ==
    { <<Content(<<"x">>), HttpErr, Content(Upto(MOCK_TOOL_CODE, Len(MOCK_TOOL_CODE) - 19)),
        Content(From(MOCK_TOOL_CODE, Len(MOCK_TOOL_CODE) - 19)), Content(<<"y">>), HttpDone>>,
      <<Content(TOOL_CODE_OPEN \o TOOL_FOO \o TOOL_CLOSE), HttpErr,
        Content(TOOL_SKELETON \o TOOL_CLOSE \o TOOL_CODE_CLOSE), HttpDone>> }

\* stream_chat(req): what the stream will do
StreamChat(turns) ==
    IF gw = "mock" THEN {MockSteps}
    ELSE IF gw = "broken"
         THEN BrokenProseAnswers \cup (IF turns < MaxLiveTurns THEN BrokenToolAnswers ELSE {})
    ELSE IF gw = "terse"
         THEN TerseProseAnswers \cup (IF turns < MaxLiveTurns THEN TerseToolAnswers ELSE {})
    ELSE LiveProseAnswers \cup (IF turns < MaxLiveTurns THEN LiveToolAnswers ELSE {})

\* window.emit of a status, token or tool_output event
EmitUi(kind, payload) == Append(ui, [kind |-> kind, payload |-> payload])

\* serde_json::from_str::<Value>(&content) for the texts of this model: the
\* only one that is a JSON object is "{}", <<"Some", value>>; the value is an
\* object without role and content
JsonFromStr(content) ==
    IF Trim(content) = <<"{", "}">> THEN <<"Some", Message("", <<>>)>> ELSE <<"None">>

\* get_history, one row: a content that starts with '{' and parses as JSON is
\* returned as that JSON value, any other as {"role": role, "content": content}
RowToMessage(row) ==
    IF StartsWith(Trim(row.content), <<"{">>) /\ JsonFromStr(row.content)[1] = "Some"
    THEN JsonFromStr(row.content)[2]
    ELSE Message(row.role, row.content)

\* SqliteHistory::get_history: the rows of the session in the order of their ids
GetHistory(rows) == [i \in DOMAIN rows |-> RowToMessage(rows[i])]

\* An add_message that keeps one row per role: the row of the role is
\* overwritten when there is one.
AddMessageUpsert(message) ==
    /\ repo' = IF \E i \in DOMAIN repo : repo[i].role = message.role
               THEN [i \in DOMAIN repo |->
                        IF repo[i].role = message.role THEN message ELSE repo[i]]
               ELSE Append(repo, message)
    /\ UNCHANGED faults

\* SqliteHistory::add_message: the INSERT of a row (role, content), or a failure
\* that leaves the table as it is; the caller drops the Result (let _ = ...)
AddMessage(message) ==
    \/ repo' = Append(repo, message) /\ UNCHANGED faults
    \/ faults > 0 /\ faults' = faults - 1 /\ UNCHANGED repo

\* spawn_agent_loop is called with a prompt
InitLoop ==
    /\ gw \in {"mock", "live"}
    /\ status = FALSE
    /\ history = <<>>
    /\ repo \in {<<>>, PriorHistory}
    /\ faults = 0
    /\ starts = StartsOff
    /\ lp = [LoopOff EXCEPT !.pc = "spawn"]
    /\ ui = <<>>

\* Load history from DB if empty: the stored messages are taken; when there
\* are none, or get_history fails, the session is a new one
SpawnLoadHistory ==
    /\ lp.pc = "spawn"
    /\ IF history = <<>>
       THEN \/ /\ history' = GetHistory(repo)
               /\ lp' = [lp EXCEPT !.pc = IF repo # <<>> THEN "prompt" ELSE "sys"]
               /\ UNCHANGED faults
            \/ /\ faults > 0 /\ faults' = faults - 1
               /\ lp' = [lp EXCEPT !.pc = "sys"]
               /\ UNCHANGED history
       ELSE /\ lp' = [lp EXCEPT !.pc = "prompt"]
            /\ UNCHANGED <<history, faults>>
    /\ UNCHANGED <<gw, starts, repo, status, ui, ptyVars, execVars>>

\* New Session: the system prompt
SpawnAddSystem ==
    /\ lp.pc = "sys"
    /\ AddMessage(Message("system", SYSTEM_PROMPT))
    /\ history' = Append(history, Message("system", SYSTEM_PROMPT))
    /\ lp' = [lp EXCEPT !.pc = "prompt"]
    /\ UNCHANGED <<gw, starts, status, ui, ptyVars, execVars>>

\* Add User Prompt
SpawnAddPrompt ==
    /\ lp.pc = "prompt"
    /\ AddMessage(Message("user", PROMPT))
    /\ history' = Append(history, Message("user", PROMPT))
    /\ lp' = [lp EXCEPT !.pc = "pty"]
    /\ UNCHANGED <<gw, starts, status, ui, ptyVars, execVars>>

\* Exit statuses of the commands of a shell that answers at once.
PromptCodes == {0, 1}

\* start_terminal_session succeeds, the id is stored and the fan-out task is
\* spawned; or it fails and the failure is printed
SpawnStartPty ==
    /\ lp.pc = "pty"
    /\ IF terminal_session_id = "none"
       THEN \/ /\ terminal_session_id' = "t1"
               /\ sessions' = sessions \cup {"t1"}
               /\ \E c \in PromptCodes : sh' = ShellOn(PromptPrograms(c))
               /\ fo' = FanoutOn
            \/ UNCHANGED <<terminal_session_id, sessions, sh, fo>>
       ELSE UNCHANGED <<terminal_session_id, sessions, sh, fo>>
    /\ lp' = [lp EXCEPT !.pc = "flag"]
    /\ UNCHANGED <<gw, starts, faults, status, history, repo, ui, pty_in, pty_chan, command_buffer, rx, ex,
                   calls>>

\* session.status.store(true), tokio::spawn of the loop task
SpawnSetRunning ==
    /\ lp.pc = "flag"
    /\ status' = TRUE
    /\ lp' = [lp EXCEPT !.pc = "task"]
    /\ UNCHANGED <<gw, starts, faults, history, repo, ui, ptyVars, execVars>>

\* the loop task starts: emit "running"
LoopTaskStart ==
    /\ lp.pc = "task"
    /\ ui' = EmitUi("status", <<"running">>)
    /\ lp' = [lp EXCEPT !.pc = "top"]
    /\ UNCHANGED <<gw, starts, faults, status, history, repo, ptyVars, execVars>>

\* loop { if !status { break; } ... let mut stream = stream_chat(req); ... }
LoopTop ==
    /\ lp.pc = "top"
    /\ IF ~status
       THEN lp' = [lp EXCEPT !.pc = "done"]
       ELSE /\ lp.turns < MaxTurns
            /\ \E steps \in StreamChat(lp.turns) :
                 lp' = [lp EXCEPT !.pc = "stream", !.steps = steps, !.parser = NewParser,
                                  !.stream = <<>>,
                                  !.current_tool_name = <<>>, !.current_tool_args = <<>>,
                                  !.assistant_content = <<>>, !.tool_calls = <<>>,
                                  !.next = 1,
                                  !.turns = @ + 1]
    /\ UNCHANGED <<gw, starts, faults, status, history, repo, ui, ptyVars, execVars>>

\* A match whose Error arm ends the reading of the stream.
OnEventErrorBreaks(l, event) ==
    IF event.type = "Token" THEN [l EXCEPT !.assistant_content = @ \o event.a]
    ELSE IF event.type = "ToolStart"
         THEN [l EXCEPT !.current_tool_name = <<event.a>>, !.current_tool_args = <<>>]
    ELSE IF event.type = "ToolArg"
         THEN [l EXCEPT !.current_tool_args = (event.a :> event.b) @@ @]
    ELSE IF event.type = "ToolEnd"
         THEN IF l.current_tool_name # <<>>
              THEN [l EXCEPT !.tool_calls =
                                Append(@, [name |-> l.current_tool_name[1],
                                           arguments |-> l.current_tool_args]),
                             !.current_tool_name = <<>>]
              ELSE l
    ELSE IF event.type = "Error"
         THEN [l EXCEPT !.stream = <<>>, !.steps = <<>>]
    ELSE l

\* match event { ... }: the locals of the turn after the event
OnEvent(l, event) ==
    IF event.type = "Token" THEN [l EXCEPT !.assistant_content = @ \o event.a]
    ELSE IF event.type = "ToolStart"
         THEN [l EXCEPT !.current_tool_name = <<event.a>>, !.current_tool_args = <<>>]
    ELSE IF event.type = "ToolArg"
         THEN [l EXCEPT !.current_tool_args = (event.a :> event.b) @@ @]
    ELSE IF event.type = "ToolEnd"
         THEN IF l.current_tool_name # <<>>
              THEN [l EXCEPT !.tool_calls =
                                Append(@, [name |-> l.current_tool_name[1],
                                           arguments |-> l.current_tool_args]),
                             !.current_tool_name = <<>>]
              ELSE l
    ELSE l

\* A failed request after which the stream would go on to the end of an answer.
RequestFailedThenDone(l, msg) == [l EXCEPT !.stream = <<ErrorEv(msg), Done>>, !.steps = <<>>]

\* The request fails or is answered with a status that is no success:
\* yield StreamEvent::Error(msg); return
RequestFailed(l, msg) == [l EXCEPT !.stream = <<ErrorEv(msg)>>, !.steps = <<>>]

\* The stream of stream_chat, polled by stream.next(), takes its next step:
\* the events it yields wait in lp.stream
GatewayNext ==
    /\ lp.pc = "stream" /\ lp.stream = <<>> /\ lp.steps # <<>>
    /\ LET step == Head(lp.steps)
           r == ProcessChunk(lp.parser, step.text)
       IN  lp' = IF step.kind = "fail"
                 THEN RequestFailed(lp, step.text)
                 ELSE IF step.kind = "done"
                      THEN [lp EXCEPT !.stream = <<Done>>, !.steps = <<>>]
                 ELSE IF step.kind = "err"
                      THEN [lp EXCEPT !.stream = <<ErrorEv(step.text)>>, !.steps = Tail(@)]
                 ELSE [lp EXCEPT !.stream = r.events, !.parser = r.p, !.steps = Tail(@)]
    /\ UNCHANGED <<gw, starts, faults, status, history, repo, ui, ptyVars, execVars>>

\* while let Some(event) = stream.next().await { if !status { break; } ... }:
\* the event is sent to the window as a token event, then matched
LoopEvent ==
    /\ lp.pc = "stream" /\ lp.stream # <<>>
    /\ IF ~status
       THEN /\ lp' = [lp EXCEPT !.pc = "asst", !.stream = <<>>, !.steps = <<>>]
            /\ UNCHANGED ui
       ELSE /\ ui' = EmitUi("token", Head(lp.stream))
            /\ lp' = OnEvent([lp EXCEPT !.stream = Tail(@)], Head(lp.stream))
    /\ UNCHANGED <<gw, starts, faults, status, history, repo, ptyVars, execVars>>

\* stream.next() returns None
LoopStreamEnd ==
    /\ lp.pc = "stream" /\ lp.stream = <<>> /\ lp.steps = <<>>
    /\ lp' = [lp EXCEPT !.pc = "asst"]
    /\ UNCHANGED <<gw, starts, faults, status, history, repo, ui, ptyVars, execVars>>

\* A loop that emits "waiting" and goes on to its next turn.
EndWithoutToolsGoesOn ==
    /\ ui' = EmitUi("status", <<"waiting">>)
    /\ UNCHANGED status
    /\ lp' = [lp EXCEPT !.pc = "top"]

\* if tool_calls.is_empty() { emit "waiting"; status.store(false); break; }
EndWithoutTools ==
    /\ ui' = EmitUi("status", <<"waiting">>)
    /\ status' = FALSE
    /\ lp' = [lp EXCEPT !.pc = "done"]

\* the assistant message is persisted and pushed; without tool calls the loop
\* ends, with tool calls it goes on to run them
LoopAssistant ==
    /\ lp.pc = "asst"
    /\ AddMessage(Message("assistant", lp.assistant_content))
    /\ history' = Append(history, Message("assistant", lp.assistant_content))
    /\ IF lp.tool_calls = <<>>
       THEN EndWithoutTools
       ELSE /\ lp' = [lp EXCEPT !.pc = "tools"]
            /\ UNCHANGED <<status, ui>>
    /\ UNCHANGED <<gw, starts, ptyVars, execVars>>

\* A for loop that takes the collected calls from the last to the first.
NextToolFromEnd(tool_calls, next) == tool_calls[Len(tool_calls) - next + 1]

\* for tool in tool_calls: the call the for loop is at
NextTool(tool_calls, next) == tool_calls[next]

\* for tool in tool_calls { let output = execute_tool(&tool, ...).await; ... }
LoopDispatch ==
    /\ lp.pc = "tools" /\ ex.pc = "idle"
    /\ ex' = [ExIdle EXCEPT !.pc = "start", !.tool = NextTool(lp.tool_calls, lp.next)]
    /\ calls' = calls + 1
    /\ lp' = [lp EXCEPT !.pc = "exec"]
    /\ UNCHANGED <<gw, starts, faults, status, history, repo, ui, ptyVars, terminal_session_id, sessions,
                   command_buffer, rx>>

\* format!("Tool Output [{}]:\n{}", tool.name, output)
ResultMsg(name, output) == <<"Tool Output [">> \o name \o <<"]:\n">> \o output

\* execute_tool has returned: the tool message is persisted and pushed, the
\* tool_output event emitted, and the for loop goes to the next call or the
\* loop to its next turn
LoopToolResult ==
    /\ lp.pc = "exec" /\ ex.pc = "ret"
    /\ LET result_msg == ResultMsg(ex.tool.name, ex.result)
       IN  /\ AddMessage(Message("user", result_msg))
           /\ history' = Append(history, Message("user", result_msg))
           /\ ui' = EmitUi("tool_output", result_msg)
    /\ ex' = ExIdle
    /\ lp' = [lp EXCEPT !.next = @ + 1,
                        !.pc = IF lp.next = Len(lp.tool_calls) THEN "top" ELSE "tools"]
    /\ UNCHANGED <<gw, starts, status, ptyVars, terminal_session_id, sessions, command_buffer, rx,
                   calls>>

\* User cancellation clears the running flag
Cancel ==
    /\ status
    /\ status' = FALSE
    /\ UNCHANGED <<gw, starts, faults, history, repo, lp, ui, ptyVars, execVars>>

LoopStep ==
    \/ SpawnLoadHistory
    \/ SpawnAddSystem
    \/ SpawnAddPrompt
    \/ SpawnStartPty
    \/ SpawnSetRunning
    \/ LoopTaskStart
    \/ LoopTop
    \/ GatewayNext
    \/ LoopEvent
    \/ LoopStreamEnd
    \/ LoopAssistant
    \/ LoopDispatch
    \/ LoopToolResult

\* The executor as the loop runs it, with a shell that answers within the
\* per-chunk timeout
ExecStepPrompt ==
    \/ ExecRunCommandStart
    \/ ExecRunCommandWrite
    \/ ExecRunCommandChunk
    \/ ExecEffectorTool
    \/ ExecUnknownTool

PtyStepPrompt ==
    \/ ShellRunLine /\ UNCHANGED execVars
    \/ ReaderRead /\ UNCHANGED execVars
    \/ FanoutRecv /\ UNCHANGED execVars
    \/ FanoutSend /\ UNCHANGED <<terminal_session_id, sessions, command_buffer, ex, calls>>

Init ==
    /\ InitParserIdle
    /\ InitPtyIdle(PromptPrograms(0))
    /\ InitExecIdle
    /\ InitLoop

Next ==
    \/ LoopStep /\ UNCHANGED restVars
    \/ Cancel /\ UNCHANGED restVars
    \/ ExecStepPrompt /\ UNCHANGED <<restVars, loopVars>>
    \/ PtyStepPrompt /\ UNCHANGED <<restVars, loopVars>>

Spec == Init /\ [][Next]_vars

\* ------------------------------------------------------------------------
\* Properties of the agent loop
\* ------------------------------------------------------------------------
\* the loop task has been spawned
LoopSpawned == lp.pc \notin {"off", "spawn", "sys", "prompt", "pty", "flag"}

\* C7: once the running flag of a spawned loop is cleared, the loop invokes
\* execute_tool no more.
C7_NoDispatchAfterClear ==
    [][(LoopSpawned /\ ~status) => calls' = calls]_vars

\* C8: the loop makes at most 20 turns, even when every answer of the model
\* contains a tool call.
C8_TurnsBounded == lp.turns <= 20

\* Scenario S1: gateway in mock mode, the loop spawned, no PTY session
ScenarioS1 == gw = "mock" /\ LoopSpawned /\ terminal_session_id = "none"

\* C9: in scenario S1 the loop makes one turn, the tool call of that turn is
\* run_command(program="ls", args="-la"), execute_tool returns
\* "Error: No terminal session active.", and no second request is made: after
\* the turn the loop has emitted "waiting" and ended.
C9_ScenarioS1 ==
    ScenarioS1 =>
        /\ lp.turns <= 1
        /\ \A i \in DOMAIN lp.tool_calls : lp.tool_calls[i] = ToolLs
        /\ ex.pc = "ret" => ex.result = NO_TERMINAL

Last(s) == s[Len(s)]

\* C10: a turn whose stream produced no completed tool call ends the loop: the
\* step of the loop after the stream appends the assistant message, emits
\* "waiting", clears the running flag and ends the loop; neither that step nor
\* any later one dispatches a tool or makes a request.
C10_NoToolCallEndsLoop ==
    [][/\ (lp.pc = "asst" /\ lp.tool_calls = <<>> /\ lp' # lp) =>
            /\ history' = Append(history, Message("assistant", lp.assistant_content))
            /\ ui' = Append(ui, [kind |-> "status", payload |-> <<"waiting">>])
            /\ ~status'
            /\ lp'.pc = "done"
            /\ calls' = calls /\ lp'.turns = lp.turns
       /\ lp.pc = "done" => (lp'.pc = "done" /\ calls' = calls /\ lp'.turns = lp.turns)
      ]_vars

\* A loop has ended after a turn without a tool call.
C10_Witness ==
    /\ lp.pc = "done" /\ lp.turns >= 1 /\ ~status
    /\ ui # <<>> /\ Last(ui).kind = "status" /\ Last(ui).payload = <<"waiting">>
    /\ Last(history).role = "assistant"

\* The place of the last assistant message in a history (0: none).
LastAssistant(h) == MaxOf({0} \cup {i \in DOMAIN h : h[i].role = "assistant"})

\* The messages of a history that follow its last assistant message.
SinceAssistant(h) == From(h, LastAssistant(h))

\* The tool_output events among the events sent to the window.
ToolOutputs == SelectSeq(ui, LAMBDA e : e.kind = "tool_output")

\* The tool-result messages of a history.
ToolResults(h) == SelectSeq(h, LAMBDA m : StartsWith(m.content, <<"Tool Output [">>))

\* C11: within a turn the collected tool calls (pushed at each ToolEnd) are
\* dispatched one at a time and in that order: while the tool loop is at work,
\* the k messages after the turn's assistant message are the results of the
\* first k collected calls, the last k tool_output events carry them, the call
\* being executed is the (k+1)-th, and no call starts before the result of the
\* one before it is in history and on the window.
C11_ToolCallsInOrder ==
    lp.pc \in {"tools", "exec"} =>
        LET done == SinceAssistant(history)
            k == Len(done)
            outs == ToolOutputs
        IN  /\ k < Len(lp.tool_calls)
            /\ Len(outs) = Len(ToolResults(history))
            /\ calls = Len(outs) + (IF lp.pc = "exec" THEN 1 ELSE 0)
            /\ \A i \in 1..k :
                  /\ done[i].role = "user"
                  /\ StartsWith(done[i].content,
                                <<"Tool Output [">> \o lp.tool_calls[i].name \o <<"]:\n">>)
                  /\ outs[Len(outs) - k + i].payload = done[i].content
            /\ lp.pc = "exec" => ex.pc # "idle" /\ ex.tool = lp.tool_calls[k + 1]
            /\ lp.pc = "tools" => ex = ExIdle

\* The second call of a turn is being executed after the first one's result.
C11_Witness ==
    /\ lp.pc = "exec" /\ Len(lp.tool_calls) = 2
    /\ Len(SinceAssistant(history)) = 1
    /\ ex.tool.name = <<"b", "a", "r">>
    /\ Last(ToolOutputs).payload = Last(history).content

\* A replayed message is a tool result.
IsToolResult(m) == StartsWith(m.content, <<"Tool Output [">>)

\* C12: in the history replayed from the repository each tool-result message
\* is preceded by the assistant message of its turn: going back from it over
\* the tool results of the same turn one arrives at an assistant message.
C12_AssistantBeforeToolResults ==
    LET replayed == GetHistory(repo)
    IN  \A i \in DOMAIN replayed :
            IsToolResult(replayed[i]) =>
                \E j \in 1..(i - 1) :
                    /\ replayed[j].role = "assistant"
                    /\ \A n \in (j + 1)..(i - 1) : IsToolResult(replayed[n])

\* ------------------------------------------------------------------------
\* The session beside a repository whose calls can fail, and a window that
\* calls start_agent_loop again.

\* Failures the repository answers with in one run.
MaxFaults == 1

\* Further start_agent_loop calls of the window.
MaxCallers == 1

\* The further call that is made beside a running or an ended loop.
Callers == {1}

\* let is_running = session.status.load(Relaxed)
StartLoadFlag(c) ==
    /\ starts.pc[c] = "idle"
    /\ starts' = [starts EXCEPT !.pc[c] = IF status THEN "append" ELSE "spawn"]
    /\ UNCHANGED <<gw, faults, status, history, repo, lp, ui, ptyVars, execVars>>

\* prompt of a call that is made while the loop runs
PROMPT_MORE == <<"more">>

\* if is_running: the prompt is added to the repository, not to the history
StartAppend(c) ==
    /\ starts.pc[c] = "append"
    /\ AddMessage(Message("user", PROMPT_MORE))
    /\ starts' = [starts EXCEPT !.pc[c] = "ret"]
    /\ UNCHANGED <<gw, status, history, lp, ui, ptyVars, execVars>>

\* if !is_running: spawn_agent_loop(...).await, here after the loop before it
\* has ended
StartSpawn(c) ==
    /\ starts.pc[c] = "spawn"
    /\ lp.pc = "done"
    /\ lp' = [LoopOff EXCEPT !.pc = "spawn"]
    /\ starts' = [starts EXCEPT !.pc[c] = "ret"]
    /\ UNCHANGED <<gw, faults, status, history, repo, ui, ptyVars, execVars>>

StartStep ==
    \E c \in Callers :
        \/ StartLoadFlag(c)
        \/ StartAppend(c)
        \/ StartSpawn(c)

\* A session whose terminal has been started, with a model that is terse
InitRepo ==
    /\ InitParserIdle
    /\ InitPtyStarted(PromptPrograms(0))
    /\ terminal_session_id = "t1"
    /\ sessions = {"t1"}
    /\ command_buffer = 0
    /\ rx = NoRx
    /\ ex = ExIdle
    /\ calls = 0
    /\ gw = "terse"
    /\ status = FALSE
    /\ history = <<>>
    /\ repo \in {<<>>, PriorHistory}
    /\ faults = MaxFaults
    /\ starts = [pc |-> [c \in Callers |-> "idle"], tasks |-> {}]
    /\ lp = [LoopOff EXCEPT !.pc = "spawn"]
    /\ ui = <<>>

\* The tools a terse model calls write no line to the terminal: the shell
\* waits for input throughout
NextRepo ==
    \/ LoopStep /\ UNCHANGED restVars
    \/ StartStep /\ UNCHANGED restVars
    \/ ExecStepPrompt /\ UNCHANGED <<restVars, loopVars>>

SpecRepo == InitRepo /\ [][NextRepo]_vars

\* a is a prefix of b.
IsPrefix(a, b) == Len(a) <= Len(b) /\ SubSeq(b, 1, Len(a)) = a

\* C13: append-only history: whatever step the session takes, the history
\* replayed from the repository after it extends the history replayed before
\* it as a prefix; no persisted message is removed, reordered or changed.
C13_ReplayExtends == [][IsPrefix(GetHistory(repo), GetHistory(repo'))]_vars

\* A second spawn has run its loop to the end on a repository that failed once
\* and that holds a row whose replay is not the stored message.
C13_Witness ==
    /\ lp.pc = "done" /\ lp.turns >= 1
    /\ \A c \in Callers : starts.pc[c] = "ret"
    /\ faults < MaxFaults
    /\ Len(repo) >= 5
    /\ \E i \in DOMAIN repo : GetHistory(repo)[i] # repo[i]

RECURSIVE IsSubsequence(_, _)
\* The messages of h are held by r in the same order.
IsSubsequence(h, r) ==
    IF h = <<>> THEN TRUE
    ELSE IF r = <<>> THEN FALSE
    ELSE IF Head(h) = Head(r) THEN IsSubsequence(Tail(h), Tail(r))
    ELSE IsSubsequence(h, Tail(r))

\* C14: append-then-mirror: at every state the in-memory history holds only
\* messages that the repository holds, in the same order, also after an
\* add_message that failed.
C14_HistoryHeldByRepository == IsSubsequence(history, repo)

\* ------------------------------------------------------------------------
\* Concurrent start_agent_loop calls on one session. Each call runs the
\* startup of spawn_agent_loop on its own; the loop task it spawns is followed
\* through the flag check at the top of the loop and a turn without tool calls.

\* The first call and the further ones.
AllCallers == 0..MaxCallers

\* The answer of the turn a loop task runs.
TASK_ANSWER == <<"o", "k">>

\* if !is_running: spawn_agent_loop, load history from DB if empty
CallLoadHistory(c) ==
    /\ starts.pc[c] = "spawn"
    /\ IF history = <<>>
       THEN \/ /\ history' = GetHistory(repo)
               /\ starts' = [starts EXCEPT !.pc[c] = IF repo # <<>> THEN "prompt" ELSE "sys"]
               /\ UNCHANGED faults
            \/ /\ faults > 0 /\ faults' = faults - 1
               /\ starts' = [starts EXCEPT !.pc[c] = "sys"]
               /\ UNCHANGED history
       ELSE /\ starts' = [starts EXCEPT !.pc[c] = "prompt"]
            /\ UNCHANGED <<history, faults>>
    /\ UNCHANGED <<gw, repo, status, lp, ui, ptyVars, execVars>>

\* New Session: the system prompt
CallAddSystem(c) ==
    /\ starts.pc[c] = "sys"
    /\ AddMessage(Message("system", SYSTEM_PROMPT))
    /\ history' = Append(history, Message("system", SYSTEM_PROMPT))
    /\ starts' = [starts EXCEPT !.pc[c] = "prompt"]
    /\ UNCHANGED <<gw, status, lp, ui, ptyVars, execVars>>

\* Add User Prompt
CallAddPrompt(c) ==
    /\ starts.pc[c] = "prompt"
    /\ AddMessage(Message("user", PROMPT))
    /\ history' = Append(history, Message("user", PROMPT))
    /\ starts' = [starts EXCEPT !.pc[c] = "pty"]
    /\ UNCHANGED <<gw, status, lp, ui, ptyVars, execVars>>

\* uuid::Uuid::new_v4(): an id no session of the registry has
NewSessionId(held) == IF "t1" \in held THEN "t2" ELSE "t1"

\* A startup that starts a terminal session whether or not the session has one.
CallStartPtyAlways(c) ==
    /\ starts.pc[c] = "pty"
    /\ \/ /\ terminal_session_id' = NewSessionId(sessions)
          /\ sessions' = sessions \cup {NewSessionId(sessions)}
          /\ sh' = ShellOn(PromptPrograms(0))
          /\ fo' = [FanoutOn EXCEPT !.tid = NewSessionId(sessions)]
       \/ UNCHANGED <<terminal_session_id, sessions, sh, fo>>
    /\ starts' = [starts EXCEPT !.pc[c] = "flag"]
    /\ UNCHANGED <<gw, faults, status, history, repo, lp, ui, pty_in, pty_chan,
                   command_buffer, rx, ex, calls>>

\* The terminal session is started when the session has none; a failure is
\* printed and the startup goes on
CallStartPty(c) ==
    /\ starts.pc[c] = "pty"
    /\ IF terminal_session_id = "none"
       THEN \/ /\ terminal_session_id' = NewSessionId(sessions)
               /\ sessions' = sessions \cup {NewSessionId(sessions)}
               /\ sh' = ShellOn(PromptPrograms(0))
               /\ fo' = [FanoutOn EXCEPT !.tid = NewSessionId(sessions)]
            \/ UNCHANGED <<terminal_session_id, sessions, sh, fo>>
       ELSE UNCHANGED <<terminal_session_id, sessions, sh, fo>>
    /\ starts' = [starts EXCEPT !.pc[c] = "flag"]
    /\ UNCHANGED <<gw, faults, status, history, repo, lp, ui, pty_in, pty_chan,
                   command_buffer, rx, ex, calls>>

\* session.status.store(true), tokio::spawn of the loop task
CallSetRunning(c) ==
    /\ starts.pc[c] = "flag"
    /\ status' = TRUE
    /\ starts' = [starts EXCEPT !.pc[c] = "task", !.tasks = @ \cup {c}]
    /\ UNCHANGED <<gw, faults, history, repo, lp, ui, ptyVars, execVars>>

\* The loop task starts: "running" is emitted
TaskStart(c) ==
    /\ starts.pc[c] = "task"
    /\ ui' = EmitUi("status", <<"running">>)
    /\ starts' = [starts EXCEPT !.pc[c] = "top"]
    /\ UNCHANGED <<gw, faults, status, history, repo, lp, ptyVars, execVars>>

\* loop { if !session.status.load(Relaxed) { break; } ... }
TaskTop(c) ==
    /\ starts.pc[c] = "top"
    /\ starts' = IF ~status
                 THEN [starts EXCEPT !.pc[c] = "ended", !.tasks = @ \ {c}]
                 ELSE [starts EXCEPT !.pc[c] = "turn"]
    /\ UNCHANGED <<gw, faults, status, history, repo, lp, ui, ptyVars, execVars>>

\* A turn without tool calls: the assistant message, "waiting", the flag
\* cleared, break
TaskTurn(c) ==
    /\ starts.pc[c] = "turn"
    /\ AddMessage(Message("assistant", TASK_ANSWER))
    /\ history' = Append(history, Message("assistant", TASK_ANSWER))
    /\ ui' = EmitUi("status", <<"waiting">>)
    /\ status' = FALSE
    /\ starts' = [starts EXCEPT !.pc[c] = "ended", !.tasks = @ \ {c}]
    /\ UNCHANGED <<gw, lp, ptyVars, execVars>>

InitStart ==
    /\ InitParserIdle
    /\ InitPtyIdle(PromptPrograms(0))
    /\ InitExecIdle
    /\ gw = "live"
    /\ status = FALSE
    /\ history = <<>>
    /\ repo \in {<<>>, PriorHistory}
    /\ faults \in 0..MaxFaults
    /\ starts = [pc |-> [c \in AllCallers |-> "idle"], tasks |-> {}]
    /\ lp = LoopOff
    /\ ui = <<>>

NextStart ==
    \E c \in AllCallers :
        \/ StartLoadFlag(c) /\ UNCHANGED restVars
        \/ StartAppend(c) /\ UNCHANGED restVars
        \/ CallLoadHistory(c) /\ UNCHANGED restVars
        \/ CallAddSystem(c) /\ UNCHANGED restVars
        \/ CallAddPrompt(c) /\ UNCHANGED restVars
        \/ CallStartPty(c) /\ UNCHANGED restVars
        \/ CallSetRunning(c) /\ UNCHANGED restVars
        \/ TaskStart(c) /\ UNCHANGED restVars
        \/ TaskTop(c) /\ UNCHANGED restVars
        \/ TaskTurn(c) /\ UNCHANGED restVars

SpecStart == InitStart /\ [][NextStart]_vars

\* C15: one logical loop per AgentSession: whatever the interleaving of the
\* start_agent_loop calls on the session, at most one agent-loop task is
\* running at a time.
C15_OneLoopTask == Cardinality(starts.tasks) <= 1

\* The startup of the loop is past the start of the terminal session and the
\* session has none: start_terminal_session failed.
PtyStartFailed ==
    /\ lp.pc \notin {"off", "spawn", "sys", "prompt", "pty"}
    /\ terminal_session_id = "none"

\* C16: when creating the PTY session fails during the startup of the loop,
\* the status "error" is emitted and the startup is aborted: the running flag
\* is not set and no request is made to the gateway.
C16_PtyFailureAborts ==
    PtyStartFailed =>
        /\ \E i \in DOMAIN ui : ui[i].kind = "status" /\ ui[i].payload = <<"error">>
        /\ ~status
        /\ lp.turns = 0

\* The stream events the loop has sent to the window that are errors.
StreamErrors == SelectSeq(ui, LAMBDA e : e.kind = "token" /\ e.payload.type = "Error")

\* C17: when the LLM call fails, the loop emits an "error" event that carries
\* the diagnostic text and breaks: a loop that has ended after the gateway
\* answered with an error has sent that error's text in an "error" event.
C17_LlmFailureEmitsError ==
    (lp.pc = "done" /\ StreamErrors # <<>>) =>
        \A i \in DOMAIN StreamErrors :
            \E j \in DOMAIN ui :
                ui[j].kind = "error" /\ ui[j].payload = StreamErrors[i].payload.a

\* The events of the turn's stream that the loop has sent to the window: the
\* token events after the last event of another kind.
TurnTokens ==
    LET last == MaxOf({0} \cup {i \in DOMAIN ui : ui[i].kind # "token"})
    IN  [i \in 1..(Len(ui) - last) |-> ui[last + i].payload]

\* C18: when the request fails in transport or is answered with a status that
\* is no success, the stream of the gateway is exactly one Error(msg) and then
\* ends: at the step of the stream that meets the failure nothing has been
\* yielded before, one Error with the message is yielded and nothing is left
\* to yield.
C18_FailedRequestOneError ==
    [][(/\ lp.pc = "stream" /\ lp.stream = <<>> /\ lp.steps # <<>>
        /\ Head(lp.steps).kind = "fail"
        /\ lp' # lp) =>
            /\ TurnTokens = <<>>
            /\ lp'.stream = <<ErrorEv(Head(lp.steps).text)>>
            /\ lp'.steps = <<>>
            /\ lp'.pc = "stream"
      ]_vars

\* The loop has taken the one Error of a failed request from the stream, which
\* has ended.
C18_Witness ==
    /\ lp.pc = "stream" /\ lp.stream = <<>> /\ lp.steps = <<>>
    /\ TurnTokens \in {<<ErrorEv(HttpFail.text)>>, <<ErrorEv(SendFail.text)>>}

\* The stream of the turn has ended and the loop has taken all its events.
StreamTaken == lp.pc = "stream" /\ lp.steps = <<>> /\ lp.stream = <<>>

\* C19: in mock mode the stream of every request is: Token events whose texts
\* concatenate to the prose before <tool_code>, then ToolStart("run_command"),
\* ToolArg("program", "ls"), ToolArg("args", "-la"), ToolEnd, and exactly one
\* Done as the last event.
C19_MockStreamEvents ==
    (gw = "mock" /\ StreamTaken) =>
        CoalesceAll(<<>>, TurnTokens) =
            <<Token(MOCK_PROSE), ToolStart(RUN_COMMAND), ToolArg(KEY_PROGRAM, TEXT_LS),
              ToolArg(KEY_ARGS, TEXT_LA), ToolEnd, Done>>

\* The stream of the second request in mock mode has been taken, in more
\* Token events than one.
C19_Witness ==
    /\ gw = "mock" /\ StreamTaken /\ lp.turns = 2
    /\ Len(TurnTokens) > 6
    /\ Last(TurnTokens) = Done

\* C20: every failure of a dispatched tool is returned by execute_tool as a
\* text that starts with "Error: ", and the loop records it as a tool result
\* and goes on with the next tool call or the next turn instead of ending.
C20_ToolFailureRecorded ==
    [][(lp.pc = "exec" /\ ex.pc = "ret" /\ ex.arm = "err" /\ lp' # lp) =>
            /\ StartsWith(ex.result, <<"Error: ">>)
            /\ history' = Append(history,
                                 Message("user", ResultMsg(ex.tool.name, ex.result)))
            /\ lp'.pc \in {"tools", "top"}
      ]_vars

\* ------------------------------------------------------------------------
\* The registry of PTY sessions under calls from outside the loop, and the
\* end of the AgentSession.

\* The write_to_pty calls the window makes.
MaxWrites == 2

\* The ids start_terminal_session can return; "t1" is the one the AgentSession
\* holds when it holds one.
SessionIds == {"t1", "t2", "t3"}

\* A kill_session that empties the registry.
KillSessionAll(registry, session_id) ==
    IF session_id \in registry
    THEN [sessions |-> {}, result |-> "Ok"]
    ELSE [sessions |-> registry, result |-> SHELL_ERR_NOT_FOUND]

\* kill_session: sessions.remove(session_id).is_some() -> Ok(()), else NotFound
KillSession(registry, session_id) ==
    IF session_id \in registry
    THEN [sessions |-> registry \ {session_id}, result |-> "Ok"]
    ELSE [sessions |-> registry, result |-> SHELL_ERR_NOT_FOUND]

\* A Drop for AgentSession that leaves the registry alone.
DropSessionKeeps(registry, tid) == [sessions |-> registry, result |-> "none"]

\* Drop for AgentSession: kill_session(state, id) when the session holds an id;
\* the Result is dropped
DropSession(registry, tid) ==
    IF tid # "none" THEN KillSession(registry, tid)
    ELSE [sessions |-> registry, result |-> "none"]

\* Drop for PtySession, run when its registry entry goes: child.kill() on the
\* shell of the entry
ChildrenKilled(before, after) ==
    sh' = IF terminal_session_id \in before \ after
          THEN [sh EXCEPT !.alive = FALSE, !.mode = "idle", !.left = 0]
          ELSE sh

\* start_terminal_session from another owner: a fresh id is registered, or the
\* PTY cannot be opened
TmStart ==
    /\ \/ \E id \in SessionIds \ (sessions \cup tm.killed \cup {"t1"}) :
            /\ sessions' = sessions \cup {id}
            /\ tm' = [tm EXCEPT !.call = "start", !.id = id, !.result = "Ok"]
       \/ /\ tm' = [tm EXCEPT !.call = "start", !.id = "none", !.result = "PTY Error"]
          /\ UNCHANGED sessions
    /\ UNCHANGED <<terminal_session_id, command_buffer, rx, ex, calls, ptyVars, parserVars,
                   loopVars, pf>>

\* write_to_pty(state, id, input), as the write_terminal command calls it
TmWrite(id) ==
    /\ tm.writes < MaxWrites
    /\ \E w \in WriteToPty(id) :
         /\ tm' = [tm EXCEPT !.call = "write", !.id = id, !.result = w, !.writes = @ + 1]
         /\ pty_in' = IF w = "Ok" /\ id = terminal_session_id
                      THEN Append(pty_in, [line |-> <<"\n">>, call |-> 0])
                      ELSE pty_in
    /\ UNCHANGED <<terminal_session_id, sessions, command_buffer, rx, ex, calls, sh, pty_chan,
                   fo, parserVars, loopVars, pf>>

\* kill_session(state, id)
TmKill(id) ==
    /\ LET r == KillSession(sessions, id)
       IN  /\ sessions' = r.sessions
           /\ ChildrenKilled(sessions, r.sessions)
           /\ tm' = [tm EXCEPT !.call = "kill", !.id = id, !.result = r.result,
                               !.killed = @ \cup (sessions \ r.sessions)]
    /\ UNCHANGED <<terminal_session_id, command_buffer, rx, ex, calls, pty_in, pty_chan, fo,
                   parserVars, loopVars, pf>>

\* The last Arc<AgentSession> goes: Drop for AgentSession
TmDrop ==
    /\ ~tm.dropped /\ lp.pc = "off"
    /\ LET r == DropSession(sessions, terminal_session_id)
       IN  /\ sessions' = r.sessions
           /\ ChildrenKilled(sessions, r.sessions)
           /\ tm' = [tm EXCEPT !.call = "drop", !.id = terminal_session_id,
                               !.result = "none", !.dropped = TRUE,
                               !.killed = @ \cup (sessions \ r.sessions)]
    /\ UNCHANGED <<terminal_session_id, command_buffer, rx, ex, calls, pty_in, pty_chan, fo,
                   parserVars, loopVars, pf>>

\* An AgentSession without terminal, or with the terminal "t1" that an earlier
\* spawn_agent_loop started; the registry may hold a session of another owner
InitTerm ==
    /\ InitParserOff
    /\ InitLoopOff
    /\ tm = TmOff
    /\ pf = PfOff
    /\ command_buffer = 0 /\ rx = NoRx /\ ex = ExIdle /\ calls = 0
    /\ \E others \in SUBSET {"t2"} :
         \/ /\ InitPtyIdle(PromptPrograms(0))
            /\ terminal_session_id = "none"
            /\ sessions = others
         \/ /\ InitPtyStarted(PromptPrograms(0))
            /\ terminal_session_id = "t1"
            /\ sessions = {"t1"} \cup others

NextTerm ==
    \/ TmStart
    \/ \E id \in SessionIds : TmWrite(id)
    \/ \E id \in SessionIds : TmKill(id)
    \/ TmDrop
    \/ PtyStepPrompt /\ UNCHANGED <<restVars, loopVars, execVars>>

SpecTerm == InitTerm /\ [][NextTerm]_vars

\* C21: kill_session(id) on a registered id removes exactly that entry and
\* returns Ok; write_to_pty and kill_session on an id that is not registered,
\* among them every id removed before, return NotFound and leave the registry
\* as it is.
C21_KillSessionRegistry ==
    [][(tm' # tm /\ tm'.call \in {"kill", "write"}) =>
          /\ (tm'.call = "kill" /\ tm'.id \in sessions) =>
                (tm'.result = "Ok" /\ sessions' = sessions \ {tm'.id})
          /\ tm'.id \notin sessions =>
                (tm'.result = SHELL_ERR_NOT_FOUND /\ sessions' = sessions)
          /\ tm'.id \in tm.killed => tm'.result = SHELL_ERR_NOT_FOUND
      ]_vars

\* A kill_session of an id that an earlier kill_session removed has returned
\* NotFound, while another entry is still registered.
C21_Witness ==
    /\ tm.call = "kill" /\ tm.id \in tm.killed /\ tm.result = SHELL_ERR_NOT_FOUND
    /\ sessions # {}

\* C22: after the AgentSession that owns a PTY session is dropped, the id of
\* its terminal session is not in the registry and the child shell has been
\* killed.
C22_DropKillsTerminal ==
    (tm.dropped /\ terminal_session_id # "none") =>
        /\ terminal_session_id \notin sessions
        /\ terminal_session_id \in tm.killed
        /\ ~sh.alive

\* The AgentSession that held the terminal "t1" has been dropped by the drop
\* itself, with another session left in the registry.
C22_Witness ==
    /\ tm.dropped /\ tm.call = "drop" /\ tm.id = "t1"
    /\ "t1" \in tm.killed /\ "t2" \in sessions

\* ------------------------------------------------------------------------
\* The fan-out task beside the executor and the terminal window
\* ------------------------------------------------------------------------

\* The terminal "t1" of the session runs, its output events are kept; the
\* user types into the terminal window while the agent runs tools
InitFan ==
    /\ InitParserOff
    /\ InitLoopOff
    /\ tm = TmOff
    /\ pf = PfOff
    /\ command_buffer = 0 /\ rx = NoRx /\ ex = ExIdle /\ calls = 0
    /\ terminal_session_id = "t1"
    /\ sessions = {"t1"}
    /\ sh = ShellOn(PromptPrograms(0))
    /\ pty_in = <<>>
    /\ pty_chan = <<>>
    /\ fo = [FanoutOn EXCEPT !.watch = TRUE]

NextFan ==
    \/ TmWrite("t1")
    \/ CallExecuteTool /\ UNCHANGED <<restVars, loopVars>>
    \/ TakeResult /\ UNCHANGED <<restVars, loopVars>>
    \/ ExecStep /\ UNCHANGED <<restVars, loopVars>>
    \/ PtyStepPrompt /\ UNCHANGED <<restVars, loopVars>>

SpecFan == InitFan /\ [][NextFan]_vars

MaxDepth == 3

\* The file system the workspace lives in. A location is the sequence of names
\* from "/": the workspace root /ws with a directory, a file and a symbolic
\* link that leaves the workspace, and a directory /out beside it.
WS_ROOT == <<"ws">>
FsDirs == {<<>>, <<"ws">>, <<"ws", "src">>, <<"out">>}
FsFiles == {<<"ws", "src", "f">>, <<"out", "f">>}
FsLinks == {[at |-> <<"ws", "link">>, to |-> <<"out">>]}

\* Components of the paths a caller passes
FsNames == {"..", "ws", "src", "link", "out", "new", "f"}

\* Endings of the paths: those validate_syntax looks at, and another
FileExts == {".rs", ".ts", ".tsx", ".js", ".jsx", ".txt"}

\* user_path: absolute or relative, one to MaxDepth components, the last with
\* the ending ext (the files of the file system are found under any ending)
UserPaths ==
    [abs : BOOLEAN, parts : UNION {[1..n -> FsNames] : n \in 1..MaxDepth}, ext : FileExts]

\* content of a write: parses marks whether syn and oxc parse it without error
Contents == [parses : BOOLEAN]

SECURITY_VIOLATION == "Security Violation: Path traversal detected"
FS_IO_ERROR == "IO Error: "

RECURSIVE Locate(_, _)
\* Where the operating system ends up when it walks the components of rest
\* from the location at, following the symbolic links it meets
Locate(at, rest) ==
    IF rest = <<>> THEN at
    ELSE LET step == Append(at, Head(rest))
             links == {l \in FsLinks : l.at = step}
         IN  IF links = {} THEN Locate(step, Tail(rest))
             ELSE Locate((CHOOSE l \in links : TRUE).to, Tail(rest))

\* std::path::Path::exists
PathExists(path) == Locate(<<>>, path) \in FsDirs \cup FsFiles

\* base.join(user_path): an absolute user_path replaces base
PathJoin(base, user_path) ==
    IF user_path.abs THEN user_path.parts ELSE base \o user_path.parts

\* Path::parent
PathParent(path) == SubSeq(path, 1, Len(path) - 1)

\* Path::starts_with, on whole components
PathStartsWith(path, base) ==
    Len(base) <= Len(path) /\ SubSeq(path, 1, Len(base)) = base

FsErr(e) == [result |-> e, path |-> <<>>]
FsOk(path) == [result |-> "Ok", path |-> path]

\* validate_path(base, user_path, require_exists)
ValidatePath(base, user_path, require_exists) ==
    LET full_path == PathJoin(base, user_path)
    IN  IF \E i \in DOMAIN user_path.parts : user_path.parts[i] = ".."
        THEN FsErr(SECURITY_VIOLATION)
        ELSE IF require_exists
        THEN IF ~PathExists(full_path) THEN FsErr(FS_IO_ERROR)
             ELSE IF ~PathStartsWith(Locate(<<>>, full_path), Locate(<<>>, base))
             THEN FsErr(SECURITY_VIOLATION)
             ELSE FsOk(Locate(<<>>, full_path))
        ELSE IF /\ full_path # <<>>
                /\ PathExists(PathParent(full_path))
                /\ ~PathStartsWith(Locate(<<>>, PathParent(full_path)), Locate(<<>>, base))
        THEN FsErr(SECURITY_VIOLATION)
        ELSE FsOk(full_path)

\* read_file_internal: the file read is the one at the validated path
ReadFileInternal(root, file_path) ==
    LET v == ValidatePath(root, file_path, TRUE)
    IN  IF v.result # "Ok" THEN [result |-> v.result, touched |-> {}]
        ELSE IF v.path \notin FsFiles THEN [result |-> FS_IO_ERROR, touched |-> {}]
        ELSE [result |-> "Ok", touched |-> {v.path}]

SYNTAX_ERROR == "Syntax Error: "

\* validate_syntax(path, content): parse_file for .rs, the oxc parser for
\* .ts, .js, .tsx and .jsx, nothing for other paths
ValidateSyntax(file_path, content) ==
    IF file_path.ext \in {".rs", ".ts", ".js", ".tsx", ".jsx"} /\ ~content.parses
    THEN SYNTAX_ERROR ELSE "Ok"

\* write_file_internal that makes the directories before it validates the content
WriteFileInternalDirsFirst(root, file_path, content) ==
    LET v == ValidatePath(root, file_path, FALSE)
        at == Locate(<<>>, v.path)
        made == {SubSeq(at, 1, n) : n \in 0..(Len(at) - 1)} \ FsDirs
    IN  IF v.result # "Ok" THEN [result |-> v.result, touched |-> {}]
        ELSE IF \E n \in 0..(Len(at) - 1) : SubSeq(at, 1, n) \in FsFiles
        THEN [result |-> FS_IO_ERROR, touched |-> {}]
        ELSE IF ValidateSyntax(file_path, content) # "Ok"
        THEN [result |-> SYNTAX_ERROR, touched |-> made]
        ELSE IF at \in FsDirs THEN [result |-> FS_IO_ERROR, touched |-> made]
        ELSE [result |-> "Ok", touched |-> made \cup {at}]

\* write_file_internal: validate_path, then validate_syntax; create_dir_all(parent)
\* makes the directories that are missing, std::fs::write creates or truncates
\* the file the path leads to
WriteFileInternal(root, file_path, content) ==
    LET v == ValidatePath(root, file_path, FALSE)
        at == Locate(<<>>, v.path)
        made == {SubSeq(at, 1, n) : n \in 0..(Len(at) - 1)} \ FsDirs
    IN  IF v.result # "Ok" THEN [result |-> v.result, touched |-> {}]
        ELSE IF ValidateSyntax(file_path, content) # "Ok"
        THEN [result |-> SYNTAX_ERROR, touched |-> {}]
        ELSE IF \/ at \in FsDirs
                \/ \E n \in 0..(Len(at) - 1) : SubSeq(at, 1, n) \in FsFiles
        THEN [result |-> FS_IO_ERROR, touched |-> {}]
        ELSE [result |-> "Ok", touched |-> made \cup {at}]

\* a caller holds a path
InitFs ==
    /\ InitParserOff
    /\ InitLoopOff
    /\ InitPtyIdle(PromptPrograms(0))
    /\ InitExecIdle
    /\ tm = TmOff
    /\ \E u \in UserPaths, c \in Contents :
         pf = [fn |-> "none", file_path |-> u, content |-> c]

CallReadFile ==
    /\ pf.fn = "none"
    /\ pf' = [fn |-> "read_file_internal", file_path |-> pf.file_path,
              content |-> pf.content,
              out |-> ReadFileInternal(WS_ROOT, pf.file_path)]
    /\ UNCHANGED <<parserVars, ptyVars, execVars, loopVars, tm>>

CallWriteFile ==
    /\ pf.fn = "none"
    /\ pf' = [fn |-> "write_file_internal", file_path |-> pf.file_path,
              content |-> pf.content,
              out |-> WriteFileInternal(WS_ROOT, pf.file_path, pf.content)]
    /\ UNCHANGED <<parserVars, ptyVars, execVars, loopVars, tm>>

NextFs == CallReadFile \/ CallWriteFile

SpecFs == InitFs /\ [][NextFs]_vars

\* C24: read_file_internal and write_file_internal return the security
\* violation for every path with a ".." component, and every file or directory
\* that an accepted call reads, writes or creates lies under the workspace
\* root.
C24_WorkspaceSandbox ==
    pf.fn \in {"read_file_internal", "write_file_internal"} =>
        /\ (\E i \in DOMAIN pf.file_path.parts : pf.file_path.parts[i] = "..") =>
              pf.out.result = SECURITY_VIOLATION
        /\ \A at \in pf.out.touched : PathStartsWith(at, WS_ROOT)

\* ------------------------------------------------------------------------
\* try_parse_error_context: the window around the error line
\* ------------------------------------------------------------------------

\* Longest file, in lines
MaxLines == 13

\* fc.content.lines() of a file with m lines
FileLines(m) == [i \in 1..m |-> <<"text of line ", i>>]

\* format!("{}{}| {}", marker, curr_line, l)
SnippetLine(marker, curr_line, l) == <<marker, FormatNat(curr_line), "| ", l>>

\* The lines of the snippet for the location line in a file with these lines,
\* or none when the file has no such line
ErrorWindow(lines, line) ==
    IF line > 0 /\ line <= Len(lines)
    THEN LET start == IF line > 5 THEN line - 5 ELSE 0
             end == IF line + 5 < Len(lines) THEN line + 5 ELSE Len(lines)
         IN  [some |-> TRUE,
              snippet |-> [i \in 1..(end - start) |->
                             SnippetLine(IF start + i = line THEN ">> " ELSE "   ",
                                         start + i, lines[start + i])]]
    ELSE [some |-> FALSE, snippet |-> <<>>]

\* a command has failed with a location in a file of the workspace
InitDebug ==
    /\ InitParserOff
    /\ InitLoopOff
    /\ InitPtyIdle(PromptPrograms(0))
    /\ InitExecIdle
    /\ tm = TmOff
    /\ \E m \in 0..MaxLines, line \in 0..(MaxLines + 1) :
         pf = [fn |-> "none", lines |-> FileLines(m), line |-> line]

CallErrorContext ==
    /\ pf.fn = "none"
    /\ pf' = [fn |-> "try_parse_error_context", lines |-> pf.lines, line |-> pf.line,
              out |-> ErrorWindow(pf.lines, pf.line)]
    /\ UNCHANGED <<parserVars, ptyVars, execVars, loopVars, tm>>

NextDebug == CallErrorContext

SpecDebug == InitDebug /\ [][NextDebug]_vars

\* C25: for a location at line L of a file with M lines, 1 <= L <= M, the
\* snippet has one line for each of the lines max(1, L - 5) .. min(M, L + 5)
\* of the file, in that order, each with its number and its text, and the
\* marker ">> " on line L and on no other.
C25_DebugWindow ==
    (pf.fn = "try_parse_error_context" /\ 1 <= pf.line /\ pf.line <= Len(pf.lines)) =>
        LET first == MaxOf({1, pf.line - 5})
            last == MinOf({Len(pf.lines), pf.line + 5})
        IN  /\ pf.out.some
            /\ Len(pf.out.snippet) = last - first + 1
            /\ \A i \in 1..Len(pf.out.snippet) :
                 pf.out.snippet[i] =
                    SnippetLine(IF first + i - 1 = pf.line THEN ">> " ELSE "   ",
                                first + i - 1, pf.lines[first + i - 1])

\* ------------------------------------------------------------------------
\* write_file: the note on the files that use the written file
\* ------------------------------------------------------------------------

\* consumers.iter().take(10)
HINT_LIMIT == 10

\* Files of the largest workspace directory
MaxFiles == 10

\* The written file, its search term found in itself
HINT_FILE == [path |-> "src/foo.rs", hits |-> 1]

\* Workspaces after the write: directories, each with the files whose lines
\* match the search term, hits lines in each
HintWorkspaces ==
    {<<<<HINT_FILE>>>>,
     <<<<HINT_FILE, [path |-> "src/main.rs", hits |-> 2]>>, <<[path |-> "lib/a.rs", hits |-> 1]>>>>,
     <<<<[path |-> "src/main.rs", hits |-> 1], HINT_FILE>>,
       [i \in 1..MaxFiles |-> [path |-> "lib/m" \o ToString(i) \o ".rs", hits |-> 1]]>>}

\* format!("{}:{}: {}", path_display, lnumm, line_str.trim())
MatchEntry(path, lnumm) == <<path, ":", FormatNat(lnumm), ": ", "line">>

RECURSIVE FileMatches(_, _)
\* the matches of one file, in line order
FileMatches(file, n) ==
    IF n = 0 THEN <<>> ELSE Append(FileMatches(file, n - 1), MatchEntry(file.path, n))

RECURSIVE DirMatches(_)
\* the matches of the files of one directory, taken one file after the other
DirMatches(dir) ==
    IF dir = <<>> THEN <<>>
    ELSE FileMatches(Head(dir), Head(dir).hits) \o DirMatches(Tail(dir))

RECURSIVE Interleavings(_, _)
\* the orders in which two threads can push their matches under the mutex
Interleavings(a, b) ==
    IF a = <<>> THEN {b}
    ELSE IF b = <<>> THEN {a}
    ELSE {<<Head(a)>> \o r : r \in Interleavings(Tail(a), b)} \cup
         {<<Head(b)>> \o r : r \in Interleavings(a, Tail(b))}

RECURSIVE SearchCodeInternal(_)
\* search_code_internal: WalkBuilder::build_parallel lets the threads push in
\* any order; here each directory is searched by a thread of its own
SearchCodeInternal(workspace) ==
    IF workspace = <<>> THEN {<<>>}
    ELSE UNION {Interleavings(DirMatches(Head(workspace)), r) :
                  r \in SearchCodeInternal(Tail(workspace))}

RECURSIVE Consumers(_, _, _)
\* the loop of find_usages over the matches: m.split_once(':') gives the path,
\* kept when it is not the written file and not yet in consumers
Consumers(matches, file_path, consumers) ==
    IF matches = <<>> THEN consumers
    ELSE LET path_part == Head(Head(matches))
         IN  Consumers(Tail(matches), file_path,
                       IF path_part # file_path /\ \A i \in DOMAIN consumers : consumers[i] # path_part
                       THEN Append(consumers, path_part) ELSE consumers)

RECURSIVE HintLines(_)
\* format!("- {}\n", c) for each listed consumer
HintLines(cs) == IF cs = <<>> THEN <<>> ELSE <<"- ", Head(cs), "\n">> \o HintLines(Tail(cs))

\* The string the write_file arm returns after a successful write
WriteFileOutput(consumers) ==
    <<"Successfully wrote file.">> \o
    (IF consumers = <<>> THEN <<>>
     ELSE <<"\n\n[Context Note] This file is imported by:\n">> \o
          HintLines(SubSeq(consumers, 1, MinOf({HINT_LIMIT, Len(consumers)}))) \o
          (IF Len(consumers) > HINT_LIMIT
           THEN <<"... and ", FormatNat(Len(consumers) - HINT_LIMIT), " more.\n">>
           ELSE <<>>) \o
          <<"Ensure you have not broken these consumers.">>)

\* a workspace in which src/foo.rs is about to be written twice
InitHint ==
    /\ InitParserOff
    /\ InitLoopOff
    /\ InitPtyIdle(PromptPrograms(0))
    /\ InitExecIdle
    /\ tm = TmOff
    /\ \E w \in HintWorkspaces :
         pf = [fn |-> "none", workspace |-> w, file_path |-> HINT_FILE.path, outs |-> <<>>]

\* execute_tool with write_file on file_path, the write succeeding
CallWriteFileTool ==
    /\ Len(pf.outs) < 2
    /\ \E matches \in SearchCodeInternal(pf.workspace) :
         pf' = [pf EXCEPT !.fn = "write_file",
                          !.outs = Append(@, WriteFileOutput(Consumers(matches, pf.file_path, <<>>)))]
    /\ UNCHANGED <<parserVars, ptyVars, execVars, loopVars, tm>>

NextHint == CallWriteFileTool

SpecHint == InitHint /\ [][NextHint]_vars

\* C26: two write_file dispatches of the same path and content in a workspace
\* that does not change between them return the same string.
C26_HintIdempotent ==
    (pf.fn = "write_file" /\ Len(pf.outs) = 2) => pf.outs[1] = pf.outs[2]

\* ------------------------------------------------------------------------
\* format_with_sentinel, in agent_core and in terminal_manager
\* ------------------------------------------------------------------------

\* Longest command, in pieces of text
MaxCommandLen == 2

ShellTypes == {"Bash", "Cmd", "PowerShell"}

\* Pieces of the commands
CommandAtoms == {"ls", " ", "#", "\n", "IRONGRAPH_CMD_DONE", ":"}

CommandStrings == UNION {[1..n -> CommandAtoms] : n \in 0..MaxCommandLen}

\* ShellType::format_with_sentinel of terminal_manager::tools
ToolsFormatWithSentinel(shell, command) ==
    CASE shell = "Bash" ->
           command \o <<";", " ", "echo", " ", "\"">> \o SENTINEL \o <<"$?", "\"", "\n">>
      [] shell = "Cmd" ->
           command \o <<" ", "&", " ", "echo", " ">> \o SENTINEL \o <<"%ERRORLEVEL%", "\r", "\n">>
      [] OTHER ->
           command \o <<";", " ", "Write-Host", " ", "\"">> \o SENTINEL
                   \o <<"$LASTEXITCODE", "\"", "\r", "\n">>

\* a command is about to be wrapped for a shell
InitFormat ==
    /\ InitParserOff
    /\ InitLoopOff
    /\ InitPtyIdle(PromptPrograms(0))
    /\ InitExecIdle
    /\ tm = TmOff
    /\ \E shell \in ShellTypes, command \in CommandStrings :
         pf = [fn |-> "none", shell |-> shell, command |-> command]

CallFormatWithSentinel ==
    /\ pf.fn = "none"
    /\ pf' = [fn |-> "format_with_sentinel", shell |-> pf.shell, command |-> pf.command,
              agent_core |-> FormatWithSentinel(pf.shell, pf.command),
              terminal_manager |-> ToolsFormatWithSentinel(pf.shell, pf.command)]
    /\ UNCHANGED <<parserVars, ptyVars, execVars, loopVars, tm>>

NextFormat == CallFormatWithSentinel

SpecFormat == InitFormat /\ [][NextFormat]_vars

\* the name under which each shell holds the exit status of the last command
ExitStatusOf(shell) ==
    CASE shell = "Bash" -> "$?" [] shell = "Cmd" -> "%ERRORLEVEL%" [] OTHER -> "$LASTEXITCODE"

\* C27: the string format_with_sentinel returns starts with the command; what
\* follows the command is a line of the shell that prints IRONGRAPH_CMD_DONE:
\* directly followed by the exit status, once, and ends with "\n" alone for
\* Bash and with "\r\n" for Cmd and PowerShell; the copy in terminal_manager
\* returns the same string.
C27_FormatWithSentinel ==
    pf.fn = "format_with_sentinel" =>
        LET out == pf.agent_core
            epilogue == From(out, Len(pf.command))
            idx == Find(epilogue, SENTINEL)
            printer == IF pf.shell = "PowerShell" THEN "Write-Host" ELSE "echo"
        IN  /\ StartsWith(out, pf.command)
            /\ idx >= 0
            /\ Find(From(epilogue, idx + Len(SENTINEL)), SENTINEL) < 0
            /\ epilogue[idx + Len(SENTINEL) + 1] = ExitStatusOf(pf.shell)
            /\ \E i \in 1..idx : epilogue[i] = printer
            /\ EndsWith(out, <<"\n">>)
            /\ EndsWith(out, <<"\r", "\n">>) <=> pf.shell # "Bash"
            /\ \A i \in 1..(Len(epilogue) - 1) : epilogue[i] # "\n"
            /\ pf.terminal_manager = out

\* A command that itself holds the sentinel text has been wrapped for Cmd.
C27_Witness ==
    /\ pf.fn = "format_with_sentinel" /\ pf.shell = "Cmd"
    /\ pf.command = <<"IRONGRAPH_CMD_DONE", ":">>
    /\ Len(pf.agent_core) > Len(pf.command) + Len(SENTINEL)

\* ------------------------------------------------------------------------
\* The agent loop over a connection that breaks
\* ------------------------------------------------------------------------

InitBroken ==
    /\ InitParserIdle
    /\ InitPtyIdle(PromptPrograms(0))
    /\ InitExecIdle
    /\ gw = "broken"
    /\ status = FALSE
    /\ history = <<>>
    /\ repo \in {<<>>, PriorHistory}
    /\ faults = 0
    /\ starts = StartsOff
    /\ lp = [LoopOff EXCEPT !.pc = "spawn"]
    /\ ui = <<>>

SpecBroken == InitBroken /\ [][Next]_vars

RECURSIVE TokenTexts(_)
\* the texts of the Token events among the events, in one
TokenTexts(events) ==
    IF events = <<>> THEN <<>>
    ELSE (IF Head(events).type = "Token" THEN Head(events).a ELSE <<>>) \o
         TokenTexts(Tail(events))

\* the names of the tools the events start
ToolStarts(events) == SelectSeq(events, LAMBDA e : e.type = "ToolStart")

\* C30: when the loop takes an Error event from the stream while the running
\* flag is set, it stays in the stream loop with the text and the tool calls
\* it has collected, and what the stream has still to yield is left as it is;
\* so as long as the loop reads the stream of a turn, the assistant text is
\* the text of all Token events of the turn and the tool calls are those of
\* all ToolStart events that were closed, whether they came before or after an
\* Error.
C30_ErrorKeepsStream ==
    [][/\ (/\ lp.pc = "stream" /\ lp.stream # <<>> /\ status
           /\ Head(lp.stream).type = "Error" /\ lp' # lp) =>
              /\ lp'.pc = "stream"
              /\ lp'.stream = Tail(lp.stream)
              /\ lp'.steps = lp.steps
              /\ lp'.assistant_content = lp.assistant_content
              /\ lp'.tool_calls = lp.tool_calls
       /\ (lp'.pc = "stream" /\ lp'.stream = <<>>) =>
              /\ lp'.assistant_content = TokenTexts(TurnTokens')
              /\ Len(lp'.tool_calls) + Len(lp'.current_tool_name) = Len(ToolStarts(TurnTokens'))
              /\ \A i \in DOMAIN lp'.tool_calls :
                   lp'.tool_calls[i].name = ToolStarts(TurnTokens')[i].a
      ]_vars

\* The stream of a turn has ended after an Error in its middle: the loop holds
\* text from before and from after the Error and a tool call that came after it.
C30_Witness ==
    /\ StreamTaken /\ status
    /\ \E i, j, k \in DOMAIN TurnTokens :
         /\ i < j /\ j < k
         /\ TurnTokens[i].type = "Token"
         /\ TurnTokens[j].type = "Error"
         /\ TurnTokens[k].type = "ToolEnd"
    /\ Last(TurnTokens) = Done
    /\ lp.assistant_content = <<"x", "y">>
    /\ Len(lp.tool_calls) = 1

\* ------------------------------------------------------------------------
\* Prompts that arrive while the loop runs
\* ------------------------------------------------------------------------

\* C31: a prompt that start_agent_loop stored while the loop was running is
\* in the message list of a later request of that loop: when the loop has
\* ended after it answered at least two more requests (two assistant messages
\* were stored after the prompt, so the second request was built after the
\* prompt was stored), the messages the loop built its requests from hold
\* the prompt.
C31_PromptPickedUp ==
    (/\ lp.pc = "done"
     /\ \E i, j, k \in DOMAIN repo :
          /\ i < j /\ j < k
          /\ repo[i] = Message("user", PROMPT_MORE)
          /\ repo[j].role = "assistant"
          /\ repo[k].role = "assistant") =>
        \E n \in DOMAIN history : history[n] = Message("user", PROMPT_MORE)

\* ------------------------------------------------------------------------
\* write_file_internal with content that does not parse
\* ------------------------------------------------------------------------

\* the call was write_file_internal on a path validate_syntax looks at, with
\* content that fails the validation
WroteBadSyntax ==
    /\ pf.fn = "write_file_internal"
    /\ pf.file_path.ext \in {".rs", ".ts", ".tsx", ".js", ".jsx"}
    /\ ~pf.content.parses

\* C32 as stated: write_file_internal on a .rs, .ts, .tsx, .js or .jsx path
\* with content that fails the syntax validation returns the Syntax error,
\* creates no directory and writes no file.
C32_SyntaxErrorAlways ==
    WroteBadSyntax => (pf.out.result = SYNTAX_ERROR /\ pf.out.touched = {})

\* C32, amended: such a call returns an error, creates no directory and
\* writes no file; the error is the Syntax error when validate_path accepts
\* the path, and the error of validate_path otherwise.
C32_SyntaxErrorNoChange ==
    WroteBadSyntax =>
        /\ pf.out.touched = {}
        /\ pf.out.result =
              IF ValidatePath(WS_ROOT, pf.file_path, FALSE).result = "Ok"
              THEN SYNTAX_ERROR
              ELSE ValidatePath(WS_ROOT, pf.file_path, FALSE).result

\* Content that does not parse was to be written to new/f.rs, below a
\* directory that does not exist: the Syntax error came back.
C32_Witness ==
    /\ WroteBadSyntax
    /\ ~pf.file_path.abs /\ pf.file_path.parts = <<"new", "f">> /\ pf.file_path.ext = ".rs"
    /\ pf.out.result = SYNTAX_ERROR

\* ------------------------------------------------------------------------
\* The events of the parser as a bracketed sequence
\* ------------------------------------------------------------------------

RECURSIVE Bracketed(_, _)
\* events is the beginning of a sequence in which ToolStart and ToolEnd
\* alternate, ToolArg comes only inside a tool and Token only outside; inside
\* says whether a tool is open before the first of the events
Bracketed(events, inside) ==
    IF events = <<>> THEN TRUE
    ELSE LET type == Head(events).type
         IN  CASE type = "ToolStart" -> ~inside /\ Bracketed(Tail(events), TRUE)
               [] type = "ToolEnd" -> inside /\ Bracketed(Tail(events), FALSE)
               [] type = "ToolArg" -> inside /\ Bracketed(Tail(events), inside)
               [] type = "Token" -> ~inside /\ Bracketed(Tail(events), inside)
               [] OTHER -> Bracketed(Tail(events), inside)

\* C33: whatever the fragments, the events the parser has emitted so far are
\* the beginning of a well-bracketed sequence: ToolStart and ToolEnd alternate,
\* beginning with ToolStart, every ToolArg and no Token lies between a
\* ToolStart and its ToolEnd; and a tool is open exactly when the parser
\* holds its name.
C33_EventsBracketed ==
    /\ Bracketed(p_log, FALSE)
    /\ (parser.state = "InToolArg") <=>
          (\E i \in DOMAIN p_log :
              /\ p_log[i].type = "ToolStart"
              /\ \A j \in (i + 1)..Len(p_log) : p_log[j].type = "ToolArg")

\* A text with two tool calls in one block has been fed: both calls were
\* emitted, the second with its argument, with text before and after the block.
C33_Witness ==
    /\ p_input = TwoToolsInput /\ p_pos = Len(p_input)
    /\ [i \in DOMAIN p_log |-> p_log[i].type] =
          <<"Token", "ToolStart", "ToolEnd", "ToolStart", "ToolArg", "ToolEnd", "Token">>

\* C34: no text is lost in the parser. Once the whole text has arrived and
\* the parser is outside a <tool_code> block, the only text it still holds is
\* a beginning of "<tool_code>": prose with a "<" that the later input has
\* shown not to begin a tool tag has been emitted in Token events.
C34_NoTextHeld ==
    (p_pos = Len(p_input) /\ parser.state = "Text" /\ parser.buffer # <<>>) =>
        IsProperPrefixOfToolCode(parser.buffer)

\* ------------------------------------------------------------------------
\* Commands one after the other on the same PTY
\* ------------------------------------------------------------------------
\* execute_tool invocations of one run of SpecIso.
MaxRuns == 2

\* Programs that end with some status, their output and the sentinel line read
\* in one piece, on a terminal that does not echo
IsoPrograms ==
    [modes |-> {"exit"}, codes |-> ExitCodes, outs |-> CommandOutputs, pieces |-> FALSE,
     echo |-> {FALSE}]

InitIso ==
    /\ InitParserIdle
    /\ InitLoopOff
    /\ InitPtyStarted(IsoPrograms)
    /\ terminal_session_id = "t1"
    /\ sessions = {"t1"}
    /\ command_buffer = 0
    /\ rx = NoRx
    /\ ex = ExIdle
    /\ calls = 0

\* the loop calls execute_tool for the next tool call of the session
CallNextTool ==
    /\ ex.pc = "idle" /\ calls < MaxRuns
    /\ \E tool \in ExecTools : ex' = [ExIdle EXCEPT !.pc = "start", !.tool = tool]
    /\ calls' = calls + 1
    /\ UNCHANGED <<terminal_session_id, sessions, command_buffer, rx, ptyVars>>

NextIso ==
    \/ CallNextTool /\ UNCHANGED <<restVars, loopVars>>
    \/ TakeResult /\ UNCHANGED <<restVars, loopVars>>
    \/ ExecStep /\ UNCHANGED <<restVars, loopVars>>
    \/ PtyStepPrompt /\ UNCHANGED <<restVars, loopVars>>

SpecIso == InitIso /\ [][NextIso]_vars

\* C35: command isolation. A result of run_command that reports an exit code
\* reports the status with which the command of this call ended on the
\* shell: the sentinel of an earlier command, which timed out before its
\* sentinel arrived, is never taken as the completion of the next command.
C35_OwnSentinel ==
    (ex.pc = "ret" /\ ex.tool.name = RUN_COMMAND /\ Find(ex.result, EXIT_CODE_OPEN) >= 0) =>
        /\ calls \in DOMAIN sh.codes
        /\ EndsWith(ex.result, EXIT_CODE_OPEN \o FormatInt(sh.codes[calls]) \o <<")">>)

\* C36: once a spawn_agent_loop call has stored its prompt, the persisted
\* history of the session holds the system prompt exactly once, as its first
\* message, also when get_history failed or returned no message.
C36_SystemPromptOnceFirst ==
    lp.pc \notin {"spawn", "sys", "prompt"} =>
        /\ repo # <<>>
        /\ repo[1] = Message("system", SYSTEM_PROMPT)
        /\ \A i \in DOMAIN repo : repo[i].role = "system" => i = 1

\* C37: an AgentSession owns at most one PTY session, and with it one fan-out
\* task: whatever the interleaving of the spawn_agent_loop calls on the
\* session, start_terminal_session succeeds at most once, and the
\* terminal_session_id, once set, is never replaced.
C37_OneTerminalSession ==
    [][/\ Cardinality(sessions') <= 1
       /\ terminal_session_id # "none" => terminal_session_id' = terminal_session_id]_vars

\* Two calls have both been through the start of the terminal session, and the
\* session holds the one that was started.
C37_Witness ==
    /\ \A c \in AllCallers : starts.pc[c] \in {"flag", "task", "top", "turn", "ended"}
    /\ terminal_session_id = "t1" /\ sessions = {"t1"} /\ fo.tid = "t1"

\* C38: when every agent-loop task of the session has terminated, by
\* whichever exit path, the running flag is false and the last status event
\* the window received is not "running".
C38_TerminatedNotRunning ==
    (starts.tasks = {} /\ \E c \in AllCallers : starts.pc[c] = "ended") =>
        /\ ~status
        /\ LET sent == {i \in DOMAIN ui : ui[i].kind = "status"}
           IN  sent # {} /\ ui[MaxOf(sent)].payload # <<"running">>

\* ------------------------------------------------------------------------
\* The answer of the gateway without streaming
\* ------------------------------------------------------------------------

RECURSIVE CollectTools(_, _, _, _)
\* for e in events { match e { ToolStart .. ToolArg .. ToolEnd .. _ => {} } }
CollectTools(events, current_tool_name, current_args, tools) ==
    IF events = <<>> THEN tools
    ELSE LET e == Head(events)
         IN  CASE e.type = "ToolStart" ->
                    CollectTools(Tail(events), <<e.a>>, <<>>, tools)
               [] e.type = "ToolArg" ->
                    CollectTools(Tail(events), current_tool_name,
                                 (e.a :> e.b) @@ current_args, tools)
               [] e.type = "ToolEnd" ->
                    IF current_tool_name # <<>>
                    THEN CollectTools(Tail(events), <<>>, current_args,
                                      Append(tools, [name |-> current_tool_name[1],
                                                     arguments |-> current_args]))
                    ELSE CollectTools(Tail(events), current_tool_name, current_args, tools)
               [] OTHER ->
                    CollectTools(Tail(events), current_tool_name, current_args, tools)

\* send_chat_logic: the content goes through one process_chunk call of a new
\* parser, the tool calls are collected from its events
SendChatLogic(content) ==
    [role |-> "assistant", content |-> content,
     tool_calls |-> CollectTools(ProcessChunk(NewParser, content).events, <<>>, <<>>, <<>>)]

\* C39: the answer without streaming agrees with the stream. In mock mode the
\* tool calls the loop has collected from the events of stream_chat are the
\* tool_calls send_chat_logic returns for the same text, and they are exactly
\* one run_command call with program "ls" and args "-la".
C39_PathsAgree ==
    (gw = "mock" /\ lp.pc = "tools") =>
        /\ SendChatLogic(MOCK_TEXT).tool_calls = lp.tool_calls
        /\ SendChatLogic(MOCK_TEXT).tool_calls = <<ToolLs>>

\* C40: history round trip. get_history returns as many messages as
\* add_message has stored for the session, in the order written, each with
\* the role and the content that was added, also when the content begins
\* with "{".
C40_HistoryRoundTrip ==
    /\ Len(GetHistory(repo)) = Len(repo)
    /\ \A i \in DOMAIN repo :
          /\ GetHistory(repo)[i].role = repo[i].role
          /\ GetHistory(repo)[i].content = repo[i].content

====
